---- MODULE Spec2Model ----
(***************************************************************************)
(* Verification model of the orchestration core of the voice-assistant     *)
(* firmware: BackgroundTask (the work queue), Application::Schedule and    *)
(* MainEventLoop, Application::SetDeviceState and the decode queue, and    *)
(* the two transports (MqttProtocol, WebsocketProtocol).                   *)
(*                                                                         *)
(* The module holds several specifications over one set of variables.     *)
(* Each specification drives some groups of variables and leaves the      *)
(* others at their initial value.                                          *)
(***************************************************************************)
EXTENDS Integers, Sequences, FiniteSets, TLC

(***************************************************************************)
(* Bounds of the model.                                                    *)
(***************************************************************************)
\* units that may be outstanding in the work queue at one time
MaxUnits == 3
\* a unit of depth d submits, while it runs, one unit of depth d-1
MaxDepth == 2
\* closures passed to Application::Schedule in one behaviour
MaxClosures == 4
\* packets of a built-in sound cue
MaxCueLen == 1
\* clock_ticks_ is followed up to this value
MaxTicks == 1
\* SendAudio calls in one run
MaxSends == 2
\* largest sequence number of a datagram of the peer
MaxSequence == 3
\* longest payload, in bytes
MaxPayloadLen == 33
\* the steady clock is followed up to this many seconds
MaxNow == 250
\* closures scheduled and not yet run to their end, in the model of the threads
MaxPending == 2

(***************************************************************************)
(* Program constants.                                                      *)
(***************************************************************************)
OPUS_FRAME_DURATION_MS == 60
\* max_packets_in_queue of the OnIncomingAudio callback
MaxPacketsInQueue == 300 \div OPUS_FRAME_DURATION_MS

DeviceStates ==
    {"Unknown", "Starting", "WifiConfiguring", "Idle", "Connecting",
     "Listening", "Speaking", "Upgrading", "Activating", "FatalError"}

ListeningModes == {"AutoStop", "ManualStop", "Realtime"}

\* threads, other than the control loop, that call Application::Schedule
SchedThreads == {"t1", "t2"}

VARIABLES
    \* ---- BackgroundTask (src/main/background_task.h) ----
    bg_main_tasks,      \* main_tasks_: units waiting for the worker
    bg_active_tasks,    \* active_tasks_
    bg_tasks,           \* BackgroundTaskLoop's local list `tasks`
    bg_pc,              \* position of the worker thread
    bg_outstanding,     \* history: units submitted whose callback has not returned
    bg_runs,            \* history: work units run so far (saturating)
    bg_nested,          \* history: a unit was submitted from inside a running unit
    wfc_pc,             \* position of a thread calling WaitForCompletion
    \* ---- Application::Schedule / MainEventLoop ----
    app_main_tasks,     \* Application::main_tasks_
    schedule_event,     \* SCHEDULE_EVENT bit of event_group_
    loop_pc,            \* position of MainEventLoop
    loop_tasks,         \* MainEventLoop's local list `tasks`
    sch_pc,             \* position of each thread inside Schedule
    next_closure,       \* history: closures are numbered in the order appended
    exec_log,           \* history: closures in the order executed
    \* ---- Application: device state and decode pipeline ----
    device_state_,
    listening_mode_,
    clock_ticks_,
    audio_decode_queue_,
    busy_decoding_audio_,
    aborted_,
    output_enabled,         \* codec->output_enabled()
    decoder_sample_rate,    \* opus_decoder_->sample_rate()
    audio_processor_running,
    wake_word_running,
    ctl_pc,             \* position of the thread running SetDeviceState / PlaySound
    ctl_target,         \* argument `state` of the running SetDeviceState
    ctl_cue,            \* packets of the cue PlaySound still has to enqueue
    ctl_barrier,        \* history: WaitForCompletion has returned in this call
    ctl_sent,           \* history: control messages sent by this call
    ao_pc,              \* position of OnAudioOutput
    ao_opus,            \* the packet OnAudioOutput has dequeued
    net_pc,             \* position of the transport's thread
    net_pkt,            \* the packet the transport is delivering
    net_seq,            \* number, modulo 2, of the next packet of the transport
    \* ---- MqttProtocol: the encrypted datagram path ----
    aes_key,            \* key given to mbedtls_aes_setkey_enc
    aes_nonce_,
    local_sequence_,
    remote_sequence_,
    udp_pc,             \* position of the datagram socket's receive thread
    udp_pkt,            \* the datagram the receive thread is handling
    udp_sent,           \* the last datagram given to udp_->Send
    udp_sent_data,      \* history: argument `data` of that SendAudio call
    udp_sends,          \* history: SendAudio calls so far
    udp_delivered,      \* what the last handled datagram or frame gave on_incoming_audio_
    \* ---- Protocol and its two subclasses: handshake and session ----
    protocol_kind,      \* which subclass protocol_ is
    publish_topic_,
    link,               \* mqtt_ / websocket_: "none", "connected", "disconnected"
    udp_,               \* "null" or "open"
    session_id_,
    server_sample_rate_,
    server_frame_duration_,
    server_hello_event, \* the ..._SERVER_HELLO_EVENT bit of event_group_handle_
    error_occurred_,
    oac_pc,             \* position of the thread inside OpenAudioChannel
    oac_result,         \* what OpenAudioChannel returned, until the channel is closed
    oac_cause,          \* history: why it returned false
    text_sent,          \* the last text the link accepted
    hello_owed,         \* the peer has a hello of the device to answer
    hs_hello,           \* history: the last hello ParseServerHello accepted
    hello_in_call,      \* history: a hello set the bit during the current (last) call
    \* ---- Protocol: the silence timeout ----
    now,                \* std::chrono::steady_clock::now(), in seconds
    last_incoming_time_,
    \* ---- the threads that call into Application ----
    thr_todo,           \* per thread: the steps left of the handler it runs
    thr_op,             \* per thread: the operation it is inside, or "none"
    \* ---- the decoder after a change from Speaking to Listening ----
    ctl_prev,           \* previous_state of the last SetDeviceState that changed the state
    decoder_stale,      \* history: "yes" from such a change in AutoStop until the
                        \* next ResetDecoder ("mixed": with older marked packets)
    \* ---- Application::CheckNewVersion ----
    cnv_pc,             \* position of the main task inside CheckNewVersion
    retry_count,
    retry_delay,
    cnv_i,              \* `i` of the loop that waits retry_delay seconds
    cnv_waited,         \* history: seconds the last wait took (0 once CheckVersion is called)
    cnv_calls,          \* history: CheckVersion calls since the last success
    \* ---- AbortSpeaking and the output of the decode units ----
    played,             \* history: what the last decode unit gave codec->OutputData
    abort_msg,          \* history: the last message of SendAbortSpeaking
    abort_open,         \* history: AbortSpeaking was called and no tts start came since
    \* ---- Protocol::SetError and on_network_error_ ----
    last_send,          \* history: what the last SendText returned; n alternates
    \* ---- null pointers read by the handlers of inbound messages ----
    invalid_access,     \* history: the member a handler read through a null pointer, or "none"
    halted,             \* the invalid access stopped the firmware
    \* ---- Application::CheckNewVersion, the upgrade branch ----
    input_enabled,      \* codec->EnableInput was not called with false
    background_task_,   \* "object" while Application holds a BackgroundTask, "null" after
    upg_log,            \* the steps of the tear-down taken so far, in order (history)
    \* ---- Application::CheckNewVersion, the activation loop ----
    check_done,         \* CHECK_NEW_VERSION_DONE_EVENT is set
    act_err,            \* what the last ota_.Activate() of the round returned (history)
    act_calls,          \* calls of ota_.Activate() in the round (history)
    \* ---- The decode queue from end to end ----
    enq_log,            \* the packets appended to audio_decode_queue_, in order (history)
    dec_log             \* the packets whose PCM was given to codec->OutputData, in order (history)

bgVars == <<bg_main_tasks, bg_active_tasks, bg_tasks, bg_pc, bg_outstanding,
            bg_runs, bg_nested>>

wfcVars == <<wfc_pc>>

schedVars == <<app_main_tasks, schedule_event, loop_pc, loop_tasks, sch_pc,
               next_closure, exec_log>>

stateVars == <<device_state_, listening_mode_, clock_ticks_>>

codecVars == <<aborted_, output_enabled, decoder_sample_rate,
               audio_processor_running, wake_word_running>>

ctlVars == <<ctl_pc, ctl_target, ctl_cue, ctl_barrier, ctl_sent>>

aoVars == <<busy_decoding_audio_, ao_pc, ao_opus>>

netVars == <<net_pc, net_pkt, net_seq>>

appVars == <<stateVars, codecVars, ctlVars, aoVars, netVars, audio_decode_queue_>>

udpVars == <<aes_key, aes_nonce_, local_sequence_, remote_sequence_, udp_pc,
             udp_pkt, udp_sent, udp_sent_data, udp_sends, udp_delivered>>

hsVars == <<protocol_kind, publish_topic_, link, udp_, session_id_,
            server_sample_rate_, server_frame_duration_, server_hello_event,
            error_occurred_, oac_pc, oac_result, oac_cause, text_sent,
            hello_owed, hs_hello, hello_in_call>>

protoVars == <<udpVars, hsVars>>

timeVars == <<now, last_incoming_time_>>

thrVars == <<thr_todo, thr_op>>

lsnVars == <<ctl_prev, decoder_stale>>

cnvVars == <<cnv_pc, retry_count, retry_delay, cnv_i, cnv_waited, cnv_calls>>

abVars == <<played, abort_msg, abort_open>>

errVars == <<last_send>>

jsnVars == <<invalid_access, halted>>

upgVars == <<input_enabled, background_task_, upg_log>>

actVars == <<check_done, act_err, act_calls>>

fifoVars == <<enq_log, dec_log>>

moreVars == <<thrVars, lsnVars, cnvVars, abVars, errVars, jsnVars, upgVars, actVars, fifoVars>>

notThrVars == <<timeVars, lsnVars, cnvVars, abVars, errVars, jsnVars, upgVars, actVars, fifoVars>>

notLsnVars == <<timeVars, thrVars, cnvVars, abVars, errVars, jsnVars, upgVars, actVars, fifoVars>>

notCnvVars == <<timeVars, thrVars, lsnVars, abVars, errVars, jsnVars, upgVars, actVars, fifoVars>>

notAbVars == <<timeVars, thrVars, lsnVars, cnvVars, errVars, jsnVars, upgVars, actVars, fifoVars>>

notErrVars == <<timeVars, thrVars, lsnVars, cnvVars, abVars, jsnVars, upgVars, actVars, fifoVars>>

notJsnVars == <<timeVars, thrVars, lsnVars, cnvVars, abVars, errVars, upgVars, actVars, fifoVars>>

notUpgVars == <<timeVars, thrVars, lsnVars, cnvVars, abVars, errVars, jsnVars, actVars, fifoVars>>

notActVars == <<timeVars, thrVars, lsnVars, cnvVars, abVars, errVars, jsnVars, upgVars, fifoVars>>

notFifoVars == <<timeVars, thrVars, lsnVars, cnvVars, abVars, errVars, jsnVars, upgVars, actVars>>

extVars == <<timeVars, moreVars>>

\* the variables of Application other than device_state_
appRestVars == <<listening_mode_, clock_ticks_, codecVars, ctlVars, aoVars,
                 netVars, audio_decode_queue_>>

vars == <<bgVars, wfcVars, schedVars, appVars, protoVars, extVars>>

Min(a, b) == IF a < b THEN a ELSE b

Range(s) == {s[i] : i \in DOMAIN s}

(***************************************************************************)
(* BackgroundTask                                                          *)
(***************************************************************************)
\* A unit of work: what its callback does when the worker runs it.
\*   kind "work"   : a plain callback; with depth > 0 it submits one more unit
\*   kind "decode" : the decode closure of Application::OnAudioOutput
Unit(kind, depth, pkt) == [kind |-> kind, depth |-> depth, pkt |-> pkt]

NoPacket == [src |-> "none", id |-> 0]

RECURSIVE SumDepth(_)
SumDepth(s) == IF s = <<>> THEN 0 ELSE Head(s).depth + SumDepth(Tail(s))

\* units that the queued units will still submit when they run
ToBeSpawned ==
    SumDepth(bg_main_tasks) + (IF bg_pc = "fin" THEN SumDepth(Tail(bg_tasks))
                                                ELSE SumDepth(bg_tasks))

BgInit ==
    /\ bg_main_tasks = <<>>
    /\ bg_active_tasks = 0
    /\ bg_tasks = <<>>
    /\ bg_pc = "wait"
    /\ bg_outstanding = 0
    /\ bg_runs = 0
    /\ bg_nested = FALSE

WfcInit == wfc_pc = "idle"

\* BackgroundTask::Schedule, the part under mutex_: count the unit and append it
BgSchedule(tasks, active, u) ==
    [tasks |-> Append(tasks, u), active |-> active + 1]

\* (mutation of WaitForCompletionReady: the in-flight count is not tested)
WaitForCompletionReady_ListOnly ==
    bg_main_tasks = <<>>

\* the predicate WaitForCompletion waits for
WaitForCompletionReady ==
    bg_main_tasks = <<>> /\ bg_active_tasks = 0

\* a thread other than the worker calls Schedule with a plain callback
BgScheduleExt ==
    \E d \in 0..MaxDepth :
        /\ bg_outstanding + ToBeSpawned + d + 1 <= MaxUnits
        /\ LET r == BgSchedule(bg_main_tasks, bg_active_tasks, Unit("work", d, NoPacket))
           IN  /\ bg_main_tasks' = r.tasks
               /\ bg_active_tasks' = r.active
        /\ bg_outstanding' = bg_outstanding + 1
        /\ UNCHANGED <<bg_tasks, bg_pc, bg_runs, bg_nested>>
        /\ UNCHANGED <<wfcVars, schedVars, appVars, protoVars, extVars>>

\* BackgroundTaskLoop: the wait for a non-empty list and the move of the list
BgWorkerTake ==
    /\ bg_pc = "wait"
    /\ bg_tasks = <<>>
    /\ bg_main_tasks # <<>>
    /\ bg_tasks' = bg_main_tasks
    /\ bg_main_tasks' = <<>>
    /\ bg_pc' = "cb"
    /\ UNCHANGED <<bg_active_tasks, bg_outstanding, bg_runs, bg_nested>>
    /\ UNCHANGED <<wfcVars, schedVars, appVars, protoVars, extVars>>

\* the wrapper of Schedule runs cb() of the first unit of the local list:
\* a plain callback, which may submit one more unit
BgWorkerRunWork ==
    /\ bg_pc = "cb"
    /\ Head(bg_tasks).kind = "work"
    /\ IF Head(bg_tasks).depth > 0
       THEN LET r == BgSchedule(bg_main_tasks, bg_active_tasks,
                                Unit("work", Head(bg_tasks).depth - 1, NoPacket))
            IN  /\ bg_main_tasks' = r.tasks
                /\ bg_active_tasks' = r.active
                /\ bg_outstanding' = bg_outstanding + 1 - 1
                /\ bg_nested' = TRUE
       ELSE /\ bg_outstanding' = bg_outstanding - 1
            /\ UNCHANGED <<bg_main_tasks, bg_active_tasks, bg_nested>>
    /\ bg_runs' = Min(bg_runs + 1, MaxUnits)
    /\ bg_pc' = "fin"
    /\ UNCHANGED bg_tasks
    /\ UNCHANGED <<wfcVars, schedVars, appVars, protoVars, extVars>>

\* the wrapper of Schedule after cb(): active_tasks_-- under mutex_
BgWorkerFinish ==
    /\ bg_pc = "fin"
    /\ bg_active_tasks' = bg_active_tasks - 1
    /\ bg_tasks' = Tail(bg_tasks)
    /\ bg_pc' = IF Tail(bg_tasks) = <<>> THEN "wait" ELSE "cb"
    /\ UNCHANGED <<bg_main_tasks, bg_outstanding, bg_runs, bg_nested>>
    /\ UNCHANGED <<wfcVars, schedVars, appVars, protoVars, extVars>>

\* a thread calls WaitForCompletion
WfcCall ==
    /\ wfc_pc = "idle"
    /\ wfc_pc' = "waiting"
    /\ UNCHANGED <<bgVars, schedVars, appVars, protoVars, extVars>>

\* WaitForCompletion returns
WfcReturn ==
    /\ wfc_pc = "waiting"
    /\ WaitForCompletionReady
    /\ wfc_pc' = "returned"
    /\ UNCHANGED <<bgVars, schedVars, appVars, protoVars, extVars>>

\* the caller goes on after the return
WfcDone ==
    /\ wfc_pc = "returned"
    /\ wfc_pc' = "idle"
    /\ UNCHANGED <<bgVars, schedVars, appVars, protoVars, extVars>>

(***************************************************************************)
(* Application::Schedule and Application::MainEventLoop                    *)
(***************************************************************************)
\* A closure: its number in the order of the appends, and whether it calls
\* Schedule itself while it runs.
Closure(id, nested) == [id |-> id, nested |-> nested]

SchedInit ==
    /\ app_main_tasks = <<>>
    /\ schedule_event = FALSE
    /\ loop_pc = "wait"
    /\ loop_tasks = <<>>
    /\ sch_pc = [t \in SchedThreads |-> "idle"]
    /\ next_closure = 1
    /\ exec_log = <<>>

\* closures that the queued closures will still schedule when they run
NestedPending ==
    Cardinality({i \in DOMAIN app_main_tasks : app_main_tasks[i].nested})
    + Cardinality({i \in DOMAIN loop_tasks : loop_tasks[i].nested})

\* (mutation of AppendClosure: the closure is put at the front of the list)
AppendClosure_Front(tasks, c) == <<c>> \o tasks

\* Schedule, under mutex_: main_tasks_.push_back(callback)
AppendClosure(tasks, c) == Append(tasks, c)

\* Schedule called by a thread other than the control loop: the append
ScheduleAppend(t) ==
    /\ sch_pc[t] = "idle"
    /\ \E nested \in BOOLEAN :
        /\ next_closure + NestedPending + (IF nested THEN 1 ELSE 0) <= MaxClosures
        /\ app_main_tasks' = AppendClosure(app_main_tasks, Closure(next_closure, nested))
    /\ next_closure' = next_closure + 1
    /\ sch_pc' = [sch_pc EXCEPT ![t] = "setbits"]
    /\ UNCHANGED <<schedule_event, loop_pc, loop_tasks, exec_log>>
    /\ UNCHANGED <<bgVars, wfcVars, appVars, protoVars, extVars>>

\* (mutation of ScheduleSetBits: Schedule returns without setting the bit)
ScheduleSetBits_NoSignal(t) ==
    /\ sch_pc[t] = "setbits"
    /\ schedule_event' = schedule_event
    /\ sch_pc' = [sch_pc EXCEPT ![t] = "idle"]
    /\ UNCHANGED <<app_main_tasks, loop_pc, loop_tasks, next_closure, exec_log>>
    /\ UNCHANGED <<bgVars, wfcVars, appVars, protoVars, extVars>>

\* Schedule: xEventGroupSetBits(event_group_, SCHEDULE_EVENT)
ScheduleSetBits(t) ==
    /\ sch_pc[t] = "setbits"
    /\ schedule_event' = TRUE
    /\ sch_pc' = [sch_pc EXCEPT ![t] = "idle"]
    /\ UNCHANGED <<app_main_tasks, loop_pc, loop_tasks, next_closure, exec_log>>
    /\ UNCHANGED <<bgVars, wfcVars, appVars, protoVars, extVars>>

\* MainEventLoop: xEventGroupWaitBits returns and clears SCHEDULE_EVENT
LoopWake ==
    /\ loop_pc = "wait"
    /\ schedule_event
    /\ schedule_event' = FALSE
    /\ loop_pc' = "swap"
    /\ UNCHANGED <<app_main_tasks, loop_tasks, sch_pc, next_closure, exec_log>>
    /\ UNCHANGED <<bgVars, wfcVars, appVars, protoVars, extVars>>

\* MainEventLoop: tasks = std::move(main_tasks_) under mutex_
LoopSwap ==
    /\ loop_pc = "swap"
    /\ loop_tasks' = app_main_tasks
    /\ app_main_tasks' = <<>>
    /\ loop_pc' = IF app_main_tasks = <<>> THEN "wait" ELSE "run"
    /\ UNCHANGED <<schedule_event, sch_pc, next_closure, exec_log>>
    /\ UNCHANGED <<bgVars, wfcVars, appVars, protoVars, extVars>>

\* MainEventLoop: task() for the next closure of the batch; a nested closure
\* calls Schedule (append and set the event bit) on the control loop's thread
LoopRun ==
    /\ loop_pc = "run"
    /\ exec_log' = Append(exec_log, Head(loop_tasks).id)
    /\ IF Head(loop_tasks).nested
       THEN /\ app_main_tasks' = AppendClosure(app_main_tasks, Closure(next_closure, FALSE))
            /\ next_closure' = next_closure + 1
            /\ schedule_event' = TRUE
       ELSE UNCHANGED <<app_main_tasks, next_closure, schedule_event>>
    /\ loop_tasks' = Tail(loop_tasks)
    /\ loop_pc' = IF Tail(loop_tasks) = <<>> THEN "wait" ELSE "run"
    /\ UNCHANGED sch_pc
    /\ UNCHANGED <<bgVars, wfcVars, appVars, protoVars, extVars>>

(***************************************************************************)
(* Application: SetDeviceState, the decode queue, PlaySound, the playback  *)
(* loop                                                                    *)
(***************************************************************************)
NetPacket(p) == [src |-> "net", id |-> p]

CuePacket(i) == [src |-> "cue", id |-> i]

AppRestInit ==
    /\ listening_mode_ = "AutoStop"
    /\ clock_ticks_ = 0
    /\ audio_decode_queue_ = <<>>
    /\ busy_decoding_audio_ = FALSE
    /\ aborted_ = FALSE
    /\ output_enabled = TRUE
    /\ decoder_sample_rate = 24000
    /\ audio_processor_running = FALSE
    /\ wake_word_running = FALSE
    /\ ctl_pc = "idle"
    /\ ctl_target = "Unknown"
    /\ ctl_cue = <<>>
    /\ ctl_barrier = FALSE
    /\ ctl_sent = {}
    /\ ao_pc = "idle"
    /\ ao_opus = NoPacket
    /\ net_pc = "idle"
    /\ net_pkt = NoPacket
    /\ net_seq = 0

AppInit ==
    /\ device_state_ = "Unknown"
    /\ AppRestInit

\* SetDeviceState(S) up to the call of WaitForCompletion: return at once when
\* S is the active state, else clock_ticks_ = 0, previous_state, device_state_
SdsBeginBody(S) ==
    /\ ctl_pc \in {"idle", "slm", "tts"}
    /\ ctl_pc = "slm" => S = "Listening"
    /\ ctl_pc = "tts" => S = "Speaking"
    /\ ctl_target' = S
    /\ ctl_sent' = {}
    /\ ctl_barrier' = FALSE
    /\ IF device_state_ = S
       THEN /\ ctl_pc' = "sds_ret"
            /\ UNCHANGED <<device_state_, clock_ticks_>>
       ELSE /\ clock_ticks_' = 0
            /\ device_state_' = S
            /\ ctl_pc' = "sds_wait"
    /\ UNCHANGED <<listening_mode_, ctl_cue, codecVars, aoVars, netVars,
                   audio_decode_queue_>>

\* (mutation of SdsBegin: the test for the already-active state is missing)
SdsBegin_NoEarlyReturn(S) ==
    /\ ctl_pc \in {"idle", "slm", "tts"}
    /\ ctl_pc = "slm" => S = "Listening"
    /\ ctl_pc = "tts" => S = "Speaking"
    /\ ctl_target' = S
    /\ ctl_sent' = {}
    /\ ctl_barrier' = FALSE
    /\ clock_ticks_' = 0
    /\ device_state_' = S
    /\ ctl_pc' = "sds_wait"
    /\ UNCHANGED <<listening_mode_, ctl_cue, codecVars, aoVars, netVars,
                   audio_decode_queue_>>
    /\ UNCHANGED <<bgVars, wfcVars, schedVars, protoVars, extVars>>

\* (mutation of SdsBegin: the entry actions follow without the barrier)
SdsBegin_NoBarrier(S) ==
    /\ ctl_pc \in {"idle", "slm", "tts"}
    /\ ctl_pc = "slm" => S = "Listening"
    /\ ctl_pc = "tts" => S = "Speaking"
    /\ ctl_target' = S
    /\ ctl_sent' = {}
    /\ ctl_barrier' = FALSE
    /\ IF device_state_ = S
       THEN /\ ctl_pc' = "sds_ret"
            /\ UNCHANGED <<device_state_, clock_ticks_>>
       ELSE /\ clock_ticks_' = 0
                    /\ device_state_' = S
            /\ ctl_pc' = "sds_entry"
    /\ UNCHANGED <<listening_mode_, ctl_cue, codecVars, aoVars, netVars,
                   audio_decode_queue_>>
    /\ UNCHANGED <<bgVars, wfcVars, schedVars, protoVars, extVars>>

\* SetDeviceState(S) up to the call of WaitForCompletion: return at once when
\* S is the active state, else clock_ticks_ = 0, previous_state, device_state_
SdsBegin(S) ==
    /\ SdsBeginBody(S)
    /\ UNCHANGED <<bgVars, wfcVars, schedVars, protoVars, extVars>>

\* SetDeviceState: background_task_->WaitForCompletion() returns
SdsBarrier ==
    /\ ctl_pc = "sds_wait"
    /\ WaitForCompletionReady
    /\ ctl_barrier' = TRUE
    /\ ctl_pc' = "sds_entry"
    /\ UNCHANGED <<ctl_target, ctl_cue, ctl_sent>>
    /\ UNCHANGED <<stateVars, codecVars, aoVars, netVars, audio_decode_queue_>>
    /\ UNCHANGED <<bgVars, wfcVars, schedVars, protoVars, extVars>>

\* SetDeviceState: the switch on `state`, the entry actions of the new state
SdsEntryBody ==
    /\ ctl_pc = "sds_entry"
    /\ ctl_pc' = "sds_ret"
    /\ CASE ctl_target \in {"Unknown", "Idle"} ->
              \* audio_processor_.Stop(); wake_word_detect_.StartDetection()
              /\ audio_processor_running' = FALSE
              /\ wake_word_running' = TRUE
              /\ UNCHANGED <<audio_decode_queue_, output_enabled, ctl_sent>>
         [] ctl_target = "Listening" ->
              \* UpdateIotStates sends the states when some state has changed
              \E iot \in SUBSET {"iot_states"} :
                  IF ~audio_processor_running
                  THEN \* SendStartListening, encoder reset, StopDetection, Start
                       /\ ctl_sent' = iot \cup {"listen_start"}
                       /\ wake_word_running' = FALSE
                       /\ audio_processor_running' = TRUE
                       /\ UNCHANGED <<audio_decode_queue_, output_enabled>>
                  ELSE /\ ctl_sent' = iot
                       /\ UNCHANGED <<audio_decode_queue_, output_enabled,
                                      audio_processor_running, wake_word_running>>
         [] ctl_target = "Speaking" ->
              /\ IF listening_mode_ # "Realtime"
                 THEN /\ audio_processor_running' = FALSE
                      /\ wake_word_running' = TRUE
                 ELSE UNCHANGED <<audio_processor_running, wake_word_running>>
              \* ResetDecoder()
              /\ audio_decode_queue_' = <<>>
              /\ output_enabled' = TRUE
              /\ UNCHANGED ctl_sent
         [] OTHER ->
              UNCHANGED <<audio_decode_queue_, output_enabled, ctl_sent,
                          audio_processor_running, wake_word_running>>
    /\ UNCHANGED <<ctl_target, ctl_cue, ctl_barrier>>
    /\ UNCHANGED <<stateVars, aborted_, decoder_sample_rate, aoVars, netVars>>

\* SetDeviceState: the entry actions, in a call that leaves the rest alone
SdsEntry ==
    /\ SdsEntryBody
    /\ UNCHANGED <<bgVars, wfcVars, schedVars, protoVars, extVars>>

\* SetDeviceState returns to its caller
SdsReturn ==
    /\ ctl_pc = "sds_ret"
    /\ ctl_pc' = "idle"
    /\ ctl_target' = "Unknown"
    /\ ctl_barrier' = FALSE
    /\ ctl_sent' = {}
    /\ UNCHANGED ctl_cue
    /\ UNCHANGED <<stateVars, codecVars, aoVars, netVars, audio_decode_queue_>>
    /\ UNCHANGED <<bgVars, wfcVars, schedVars, protoVars, extVars>>

\* SetListeningMode(mode): listening_mode_ = mode, then SetDeviceState(Listening)
SetListeningMode(m) ==
    /\ ctl_pc = "idle"
    /\ listening_mode_' = m
    /\ ctl_pc' = "slm"
    /\ UNCHANGED <<device_state_, clock_ticks_, ctl_target, ctl_cue,
                   ctl_barrier, ctl_sent>>
    /\ UNCHANGED <<codecVars, aoVars, netVars, audio_decode_queue_>>
    /\ UNCHANGED <<bgVars, wfcVars, schedVars, protoVars, extVars>>

\* OnClockTimer: clock_ticks_++
OnClockTimer ==
    /\ clock_ticks_ < MaxTicks
    /\ clock_ticks_' = clock_ticks_ + 1
    /\ UNCHANGED <<device_state_, listening_mode_>>
    /\ UNCHANGED <<codecVars, ctlVars, aoVars, netVars, audio_decode_queue_>>
    /\ UNCHANGED <<bgVars, wfcVars, schedVars, protoVars, extVars>>

\* the packets of a cue of n packets, in the order of the asset
RECURSIVE CuePackets(_, _)
CuePackets(i, n) == IF i > n THEN <<>> ELSE <<CuePacket(i)>> \o CuePackets(i + 1, n)

\* PlaySound(sound) is called
PlaySoundCall ==
    /\ ctl_pc = "idle"
    /\ \E n \in 1..MaxCueLen : ctl_cue' = CuePackets(1, n)
    /\ ctl_pc' = "ps_wait"
    /\ UNCHANGED <<ctl_target, ctl_barrier, ctl_sent>>
    /\ UNCHANGED <<stateVars, codecVars, aoVars, netVars, audio_decode_queue_>>
    /\ UNCHANGED <<bgVars, wfcVars, schedVars, protoVars, extVars>>

\* ResetDecoder(), under mutex_: the queue is cleared, the output enabled
ResetDecoder ==
    /\ ctl_pc = "idle"
    /\ audio_decode_queue_' = <<>>
    /\ output_enabled' = TRUE
    /\ UNCHANGED <<aborted_, decoder_sample_rate, audio_processor_running,
                   wake_word_running>>
    /\ UNCHANGED <<stateVars, ctlVars, aoVars, netVars>>
    /\ UNCHANGED <<bgVars, wfcVars, schedVars, protoVars, extVars>>

\* Alert(..., sound) with a sound: ResetDecoder(), then PlaySound(sound)
Alert ==
    /\ ctl_pc = "idle"
    /\ audio_decode_queue_' = <<>>
    /\ output_enabled' = TRUE
    /\ \E n \in 1..MaxCueLen : ctl_cue' = CuePackets(1, n)
    /\ ctl_pc' = "ps_wait"
    /\ UNCHANGED <<aborted_, decoder_sample_rate, audio_processor_running,
                   wake_word_running>>
    /\ UNCHANGED <<ctl_target, ctl_barrier, ctl_sent>>
    /\ UNCHANGED <<stateVars, aoVars, netVars>>
    /\ UNCHANGED <<bgVars, wfcVars, schedVars, protoVars, extVars>>

\* PlaySound: audio_decode_cv_.wait returns, the queue is empty
PlaySoundQueueEmpty ==
    /\ ctl_pc = "ps_wait"
    /\ audio_decode_queue_ = <<>>
    /\ ctl_pc' = "ps_wfc"
    /\ UNCHANGED <<ctl_target, ctl_cue, ctl_barrier, ctl_sent>>
    /\ UNCHANGED <<stateVars, codecVars, aoVars, netVars, audio_decode_queue_>>
    /\ UNCHANGED <<bgVars, wfcVars, schedVars, protoVars, extVars>>

\* PlaySound: WaitForCompletion returns, then SetDecodeSampleRate(16000, 60)
PlaySoundBarrier ==
    /\ ctl_pc = "ps_wfc"
    /\ WaitForCompletionReady
    /\ decoder_sample_rate' = 16000
    /\ ctl_pc' = "ps_enqueue"
    /\ UNCHANGED <<aborted_, output_enabled, audio_processor_running,
                   wake_word_running>>
    /\ UNCHANGED <<ctl_target, ctl_cue, ctl_barrier, ctl_sent>>
    /\ UNCHANGED <<stateVars, aoVars, netVars, audio_decode_queue_>>
    /\ UNCHANGED <<bgVars, wfcVars, schedVars, protoVars, extVars>>

\* PlaySound: one turn of the loop over the records of the asset, the packet
\* is appended under mutex_
PlaySoundEnqueueBody ==
    /\ ctl_pc = "ps_enqueue"
    /\ audio_decode_queue_' = Append(audio_decode_queue_, Head(ctl_cue))
    /\ ctl_cue' = Tail(ctl_cue)
    /\ ctl_pc' = IF Tail(ctl_cue) = <<>> THEN "idle" ELSE "ps_enqueue"
    /\ UNCHANGED <<ctl_target, ctl_barrier, ctl_sent>>
    /\ UNCHANGED <<stateVars, codecVars, aoVars, netVars>>
    /\ UNCHANGED <<bgVars, wfcVars, schedVars, protoVars>>

\* the same, in a specification that keeps no history of the queue
PlaySoundEnqueue ==
    /\ PlaySoundEnqueueBody
    /\ UNCHANGED extVars

\* (mutation of IncomingAudioQueue: the size test is <= instead of <)
IncomingAudioQueue_OffByOne(q, pkt) ==
    IF Len(q) <= MaxPacketsInQueue THEN Append(q, pkt) ELSE q

\* (mutation of IncomingAudioQueue: a full queue drops its oldest packet)
IncomingAudioQueue_DropOldest(q, pkt) ==
    IF Len(q) < MaxPacketsInQueue THEN Append(q, pkt) ELSE Append(Tail(q), pkt)

\* the OnIncomingAudio callback, under mutex_
IncomingAudioQueue(q, pkt) ==
    IF Len(q) < MaxPacketsInQueue THEN Append(q, pkt) ELSE q

\* the transport has its next packet for the OnIncomingAudio callback; the
\* packets are told apart by their number modulo m
NetReceive(m) ==
    /\ net_pc = "idle"
    /\ net_pkt' = NetPacket(net_seq)
    /\ net_seq' = (net_seq + 1) % m
    /\ net_pc' = "callback"
    /\ UNCHANGED <<stateVars, codecVars, ctlVars, aoVars, audio_decode_queue_>>
    /\ UNCHANGED <<bgVars, wfcVars, schedVars, protoVars, extVars>>

\* the OnIncomingAudio callback runs and returns
OnIncomingAudioBody ==
    /\ net_pc = "callback"
    /\ audio_decode_queue_' = IncomingAudioQueue(audio_decode_queue_, net_pkt)
    /\ net_pkt' = NoPacket
    /\ net_pc' = "idle"
    /\ UNCHANGED net_seq
    /\ UNCHANGED <<stateVars, codecVars, ctlVars, aoVars>>
    /\ UNCHANGED <<bgVars, wfcVars, schedVars, protoVars>>

\* the same, in a specification that keeps no history of the queue
OnIncomingAudio ==
    /\ OnIncomingAudioBody
    /\ UNCHANGED extVars

\* OnAudioOutput with an empty queue in Idle, after more than
\* max_silence_seconds without output: codec->EnableOutput(false)
AudioOutputSilence ==
    /\ ao_pc = "idle"
    /\ output_enabled
    /\ ~busy_decoding_audio_
    /\ audio_decode_queue_ = <<>>
    /\ device_state_ = "Idle"
    /\ output_enabled' = FALSE
    /\ UNCHANGED <<aborted_, decoder_sample_rate, audio_processor_running,
                   wake_word_running>>
    /\ UNCHANGED <<stateVars, ctlVars, aoVars, netVars, audio_decode_queue_>>
    /\ UNCHANGED <<bgVars, wfcVars, schedVars, protoVars, extVars>>

\* OnAudioOutput in Listening with a non-empty queue: the queue is cleared
AudioOutputDiscard ==
    /\ ao_pc = "idle"
    /\ output_enabled
    /\ ~busy_decoding_audio_
    /\ audio_decode_queue_ # <<>>
    /\ device_state_ = "Listening"
    /\ audio_decode_queue_' = <<>>
    /\ UNCHANGED <<stateVars, codecVars, ctlVars, aoVars, netVars>>
    /\ UNCHANGED <<bgVars, wfcVars, schedVars, protoVars, extVars>>

\* (mutation of AudioOutputTake: the last packet is taken, not the first)
AudioOutputTake_Back ==
    /\ ao_pc = "idle"
    /\ output_enabled
    /\ ~busy_decoding_audio_
    /\ audio_decode_queue_ # <<>>
    /\ device_state_ # "Listening"
    /\ ao_opus' = audio_decode_queue_[Len(audio_decode_queue_)]
    /\ audio_decode_queue_' =
           SubSeq(audio_decode_queue_, 1, Len(audio_decode_queue_) - 1)
    /\ ao_pc' = "schedule"
    /\ UNCHANGED busy_decoding_audio_
    /\ UNCHANGED <<stateVars, codecVars, ctlVars, netVars>>
    /\ UNCHANGED <<bgVars, wfcVars, schedVars, protoVars, extVars>>

\* (mutation of AudioOutputTake: busy_decoding_audio_ is not tested)
AudioOutputTake_NoBusyTest ==
    /\ ao_pc = "idle"
    /\ output_enabled
    /\ audio_decode_queue_ # <<>>
    /\ device_state_ # "Listening"
    /\ ao_opus' = Head(audio_decode_queue_)
    /\ audio_decode_queue_' = Tail(audio_decode_queue_)
    /\ ao_pc' = "schedule"
    /\ UNCHANGED busy_decoding_audio_
    /\ UNCHANGED <<stateVars, codecVars, ctlVars, netVars>>
    /\ UNCHANGED <<bgVars, wfcVars, schedVars, protoVars, extVars>>

\* OnAudioOutput: the first packet is taken from the queue under mutex_
AudioOutputTake ==
    /\ ao_pc = "idle"
    /\ output_enabled
    /\ ~busy_decoding_audio_
    /\ audio_decode_queue_ # <<>>
    /\ device_state_ # "Listening"
    /\ ao_opus' = Head(audio_decode_queue_)
    /\ audio_decode_queue_' = Tail(audio_decode_queue_)
    /\ ao_pc' = "schedule"
    /\ UNCHANGED busy_decoding_audio_
    /\ UNCHANGED <<stateVars, codecVars, ctlVars, netVars>>
    /\ UNCHANGED <<bgVars, wfcVars, schedVars, protoVars, extVars>>

\* OnAudioOutput: busy_decoding_audio_ = true, then the decode unit is
\* submitted to the work queue
AudioOutputSchedule ==
    /\ ao_pc = "schedule"
    /\ busy_decoding_audio_' = TRUE
    /\ LET r == BgSchedule(bg_main_tasks, bg_active_tasks, Unit("decode", 0, ao_opus))
       IN  /\ bg_main_tasks' = r.tasks
           /\ bg_active_tasks' = r.active
    /\ bg_outstanding' = bg_outstanding + 1
    /\ ao_opus' = NoPacket
    /\ ao_pc' = "idle"
    /\ UNCHANGED <<bg_tasks, bg_pc, bg_runs, bg_nested>>
    /\ UNCHANGED <<stateVars, codecVars, ctlVars, netVars, audio_decode_queue_>>
    /\ UNCHANGED <<wfcVars, schedVars, protoVars, extVars>>

\* the worker runs the decode unit of OnAudioOutput: busy_decoding_audio_ =
\* false; nothing more when aborted_, else decode, resample and output
BgWorkerRunDecodeBody ==
    /\ bg_pc = "cb"
    /\ Head(bg_tasks).kind = "decode"
    /\ busy_decoding_audio_' = FALSE
    /\ bg_outstanding' = bg_outstanding - 1
    /\ bg_pc' = "fin"
    /\ UNCHANGED <<bg_main_tasks, bg_active_tasks, bg_tasks, bg_runs, bg_nested>>
    /\ UNCHANGED <<ao_pc, ao_opus>>
    /\ UNCHANGED <<stateVars, codecVars, ctlVars, netVars, audio_decode_queue_>>

\* the decode unit, in a specification that does not follow its output
BgWorkerRunDecode ==
    /\ BgWorkerRunDecodeBody
    /\ UNCHANGED <<wfcVars, schedVars, protoVars, extVars>>

\* the decode unit returned at its test of aborted_
Skipped == [src |-> "aborted", id |-> 0]

\* (mutation of DecodeOutput: the test of aborted_ is missing)
DecodeOutput_NoAbortTest(aborted, decoded, pkt) ==
    IF ~decoded THEN NoPacket ELSE pkt

\* what the decode unit gives codec->OutputData: nothing when aborted_, nothing
\* when opus_decoder_->Decode fails, else the PCM of the packet
DecodeOutput(aborted, decoded, pkt) ==
    IF aborted THEN Skipped ELSE IF ~decoded THEN NoPacket ELSE pkt

\* the decode unit with its output followed
DecodeUnitRun(decoded) ==
    /\ BgWorkerRunDecodeBody
    /\ played' = DecodeOutput(aborted_, decoded, Head(bg_tasks).pkt)
    /\ UNCHANGED <<abort_msg, abort_open>>
    /\ UNCHANGED <<wfcVars, schedVars, protoVars, notAbVars>>

AbortReasons == {"None", "WakeWordDetected"}

NoAbortMessage == [type |-> "none", reason |-> ""]

\* Protocol::SendAbortSpeaking: the reason member is there only for
\* kAbortReasonWakeWordDetected
AbortMessage(reason) ==
    [type |-> "abort",
     reason |-> IF reason = "WakeWordDetected" THEN "wake_word_detected" ELSE ""]

\* AbortSpeaking(reason), on the control loop, called in Speaking:
\* aborted_ = true, then protocol_->SendAbortSpeaking(reason)
AbortSpeaking(reason) ==
    /\ ctl_pc = "idle"
    /\ device_state_ = "Speaking"
    /\ aborted_' = TRUE
    /\ abort_msg' = AbortMessage(reason)
    /\ abort_open' = TRUE
    /\ UNCHANGED played
    /\ UNCHANGED <<output_enabled, decoder_sample_rate, audio_processor_running,
                   wake_word_running>>
    /\ UNCHANGED <<stateVars, ctlVars, aoVars, netVars, audio_decode_queue_>>
    /\ UNCHANGED <<bgVars, wfcVars, schedVars, protoVars, notAbVars>>

\* (mutation of TtsStart: SetDeviceState(kDeviceStateSpeaking) in every state)
TtsStart_AnyState ==
    /\ ctl_pc = "idle"
    /\ aborted_' = FALSE
    /\ abort_open' = FALSE
    /\ ctl_pc' = "tts"
    /\ UNCHANGED <<played, abort_msg>>
    /\ UNCHANGED <<output_enabled, decoder_sample_rate, audio_processor_running,
                   wake_word_running>>
    /\ UNCHANGED <<stateVars, ctl_target, ctl_cue, ctl_barrier, ctl_sent, aoVars,
                   netVars, audio_decode_queue_>>
    /\ UNCHANGED <<bgVars, wfcVars, schedVars, protoVars, notAbVars>>

\* the closure of a tts start message: aborted_ = false, then
\* SetDeviceState(kDeviceStateSpeaking) when Idle or Listening
TtsStart ==
    /\ ctl_pc = "idle"
    /\ aborted_' = FALSE
    /\ abort_open' = FALSE
    /\ ctl_pc' = IF device_state_ \in {"Idle", "Listening"} THEN "tts" ELSE "idle"
    /\ UNCHANGED <<played, abort_msg>>
    /\ UNCHANGED <<output_enabled, decoder_sample_rate, audio_processor_running,
                   wake_word_running>>
    /\ UNCHANGED <<stateVars, ctl_target, ctl_cue, ctl_barrier, ctl_sent, aoVars,
                   netVars, audio_decode_queue_>>
    /\ UNCHANGED <<bgVars, wfcVars, schedVars, protoVars, notAbVars>>

\* the closure of a tts stop message in Speaking when the mode is not
\* ManualStop: after WaitForCompletion, aborted_ = false, ResetDecoder(),
\* PlaySound(P3_SUCCESS); SetDeviceState(kDeviceStateListening) comes after
\* the cue
TtsStop ==
    /\ ctl_pc = "idle"
    /\ WaitForCompletionReady
    /\ device_state_ = "Speaking"
    /\ listening_mode_ # "ManualStop"
    /\ aborted_' = FALSE
    /\ audio_decode_queue_' = <<>>
    /\ output_enabled' = TRUE
    /\ \E n \in 1..MaxCueLen : ctl_cue' = CuePackets(1, n)
    /\ ctl_pc' = "ps_wait"
    /\ UNCHANGED abVars
    /\ UNCHANGED <<decoder_sample_rate, audio_processor_running, wake_word_running>>
    /\ UNCHANGED <<ctl_target, ctl_barrier, ctl_sent>>
    /\ UNCHANGED <<stateVars, aoVars, netVars>>
    /\ UNCHANGED <<bgVars, wfcVars, schedVars, protoVars, notAbVars>>

\* the closure UartListenTask schedules for a status frame in Listening:
\* aborted_ = false, then SetDeviceState(kDeviceStateSpeaking)
UartSpeakClosure ==
    /\ ctl_pc = "idle"
    /\ device_state_ = "Listening"
    /\ aborted_' = FALSE
    /\ ctl_pc' = "tts"
    /\ UNCHANGED abVars
    /\ UNCHANGED <<output_enabled, decoder_sample_rate, audio_processor_running,
                   wake_word_running>>
    /\ UNCHANGED <<stateVars, ctl_target, ctl_cue, ctl_barrier, ctl_sent, aoVars,
                   netVars, audio_decode_queue_>>
    /\ UNCHANGED <<bgVars, wfcVars, schedVars, protoVars, notAbVars>>

\* Protocol::SendStartListening: the "mode" member of the listen message
ListenModeName(mode) ==
    CASE mode = "Realtime" -> "realtime"
      [] mode = "AutoStop" -> "auto"
      [] OTHER -> "manual"

\* the packets between the transport's callback and the decoder
PipelinePackets ==
    Range(audio_decode_queue_) \cup {ao_opus, net_pkt}
        \cup {u.pkt : u \in Range(bg_main_tasks) \cup Range(bg_tasks)}

\* SetDeviceState(S) up to WaitForCompletion, with previous_state kept and
\* the change from Speaking to Listening in AutoStop recorded
ListenSdsBegin(S) ==
    /\ SdsBeginBody(S)
    /\ IF device_state_ = S
       THEN UNCHANGED <<ctl_prev, decoder_stale>>
       ELSE /\ ctl_prev' = device_state_
            /\ decoder_stale' =
                 IF device_state_ = "Speaking" /\ S = "Listening"
                                              /\ listening_mode_ = "AutoStop"
                 THEN IF NetPacket(1) \in PipelinePackets THEN "mixed" ELSE "yes"
                 ELSE decoder_stale
    /\ UNCHANGED <<bgVars, wfcVars, schedVars, protoVars, notLsnVars>>

\* SetDeviceState: the entry actions; only those of Speaking call ResetDecoder
ListenSdsEntry ==
    /\ SdsEntryBody
    /\ decoder_stale' = IF ctl_target = "Speaking" THEN "no" ELSE decoder_stale
    /\ UNCHANGED ctl_prev
    /\ UNCHANGED <<bgVars, wfcVars, schedVars, protoVars, notLsnVars>>

\* the transport has a packet for the OnIncomingAudio callback; the packet is
\* numbered 1 when it arrives while decoder_stale is not "no", else 0
ListenNetReceive ==
    /\ net_pc = "idle"
    /\ net_pkt' = NetPacket(IF decoder_stale = "no" THEN 0 ELSE 1)
    /\ net_pc' = "callback"
    /\ UNCHANGED net_seq
    /\ UNCHANGED <<stateVars, codecVars, ctlVars, aoVars, audio_decode_queue_>>
    /\ UNCHANGED <<bgVars, wfcVars, schedVars, protoVars, extVars>>

(***************************************************************************)
(* MqttProtocol: SendAudio and the receive handler of the datagram socket  *)
(***************************************************************************)
\* Width of mbedtls' counter and stream block (uint8_t stream_block[16]).
AesBlockSize == 16

\* sizeof(aes_nonce_): the size of a std::string object on the 32-bit target.
SizeofStdString == 24

\* The type byte the receive handler accepts.
AudioPacketType == 1

\* A uint32_t as its two 16-bit halves <<high, low>>.
Uint32(n) == <<n \div 65536, n % 65536>>

\* ++x on uint32_t
Uint32Inc(x) ==
    IF x[2] = 65535 THEN <<(x[1] + 1) % 65536, 0>> ELSE <<x[1], x[2] + 1>>

\* a < b on uint32_t
Uint32Less(a, b) == a[1] < b[1] \/ (a[1] = b[1] /\ a[2] < b[2])

RECURSIVE XorBits(_, _, _)
XorBits(a, b, n) ==
    IF n = 0 THEN 0
    ELSE ((a + b) % 2) + 2 * XorBits(a \div 2, b \div 2, n - 1)

Xor8Table == [a \in 0..255 |-> [b \in 0..255 |-> XorBits(a, b, 8)]]

\* c ^ stream_block[n] on uint8_t
Xor8(a, b) == Xor8Table[a][b]

RECURSIVE SumBytes(_)
SumBytes(s) == IF s = <<>> THEN 0 ELSE Head(s) + SumBytes(Tail(s))

\* mbedtls_aes_crypt_ecb(ENCRYPT) under the key set by mbedtls_aes_setkey_enc:
\* a function of the key and of every byte of the input block.
AesEncryptBlock(key, block) ==
    LET sum == SumBytes(block)
    IN  [i \in 1..AesBlockSize |->
            (key[i] + 13 * block[i] + 31 * sum + 17 * i) % 256]

\* for (i = 16; i > 0; i--) if (++nonce_counter[i - 1] != 0) break;
RECURSIVE IncrementCounter(_, _)
IncrementCounter(ctr, i) ==
    IF i = 0 THEN ctr
    ELSE LET v == (ctr[i] + 1) % 256
         IN  IF v # 0 THEN [ctr EXCEPT ![i] = v]
             ELSE IncrementCounter([ctr EXCEPT ![i] = 0], i - 1)

\* mbedtls_aes_crypt_ctr: the output and the counter it leaves in the
\* caller's nonce buffer; n is *nc_off.
RECURSIVE AesCryptCtr(_, _, _, _, _)
AesCryptCtr(key, n, nonce_counter, stream_block, input) ==
    IF input = <<>>
    THEN [output |-> <<>>, nonce_counter |-> nonce_counter]
    ELSE LET block == IF n = 0 THEN AesEncryptBlock(key, nonce_counter)
                      ELSE stream_block
             ctr   == IF n = 0 THEN IncrementCounter(nonce_counter, AesBlockSize)
                      ELSE nonce_counter
             rest  == AesCryptCtr(key, (n + 1) % AesBlockSize, ctr, block,
                                  Tail(input))
         IN  [output |-> <<Xor8(Head(input), block[n + 1])>> \o rest.output,
              nonce_counter |-> rest.nonce_counter]

ZeroBlock == [i \in 1..AesBlockSize |-> 0]

\* (mutation of PacketNonce: the two fields in the byte order of the target,
\* without htons and htonl)
PacketNonce_HostOrder(prefix, size, sequence) ==
    [i \in 1..AesBlockSize |->
        CASE i = 3  -> size % 256
          [] i = 4  -> (size \div 256) % 256
          [] i = 13 -> sequence[2] % 256
          [] i = 14 -> sequence[2] \div 256
          [] i = 15 -> sequence[1] % 256
          [] i = 16 -> sequence[1] \div 256
          [] OTHER  -> prefix[i]]

\* The nonce of one packet: aes_nonce_ with htons(size) at offset 2 and
\* htonl(sequence) at offset 12.
PacketNonce(prefix, size, sequence) ==
    [i \in 1..AesBlockSize |->
        CASE i = 3  -> (size \div 256) % 256
          [] i = 4  -> size % 256
          [] i = 13 -> sequence[1] \div 256
          [] i = 14 -> sequence[1] % 256
          [] i = 15 -> sequence[2] \div 256
          [] i = 16 -> sequence[2] % 256
          [] OTHER  -> prefix[i]]

\* ntohl(*(uint32_t*)&data[12])
PacketSequence(data) ==
    <<data[13] * 256 + data[14], data[15] * 256 + data[16]>>

\* (mutation of EncryptedPacket: the nonce is copied after the cipher call)
EncryptedPacket_NonceAfterCrypt(key, nonce, data) ==
    LET r == AesCryptCtr(key, 0, nonce, ZeroBlock, data)
    IN  r.nonce_counter \o r.output

\* SendAudio: the nonce is copied into the packet, then the cipher runs on
\* the local nonce buffer.
EncryptedPacket(key, nonce, data) ==
    nonce \o AesCryptCtr(key, 0, nonce, ZeroBlock, data).output

\* The receive handler's decryption: counter = the packet's first 16 bytes.
DecryptPacket(key, data) ==
    AesCryptCtr(key, 0, SubSeq(data, 1, AesBlockSize), ZeroBlock,
                SubSeq(data, AesBlockSize + 1, Len(data))).output

\* The checks of the receive handler that do not involve the sequence.
PacketWellFormed(data) ==
    /\ ~(Len(data) < SizeofStdString)
    /\ data[1] = AudioPacketType

\* if (sequence < remote_sequence_) return;
PacketStale(sequence, remote) == Uint32Less(sequence, remote)

\* Payloads of the given lengths.
PayloadOf(len) == [i \in 1..len |-> (41 * i + 7 * len + 3) % 256]

PayloadLengths == {0, 1, 8, AesBlockSize + 1, MaxPayloadLen}

Payloads == {PayloadOf(n) : n \in PayloadLengths}

AesKeys ==
    { [i \in 1..AesBlockSize |-> (29 * i + 5) % 256],
      [i \in 1..AesBlockSize |-> (111 * i + 200) % 256] }

\* The nonce of the peer's hello; its first byte is the audio packet type.
ServerNonce ==
    [i \in 1..AesBlockSize |-> IF i = 1 THEN AudioPacketType
                               ELSE (i * 23 + 160) % 256]

\* Values of local_sequence_ the run starts from: 0 as the handshake leaves
\* it, and values whose increments carry into the next byte, into the high
\* half, and wrap around.
StartSequences == {Uint32(0), Uint32(255), <<0, 65535>>, <<65535, 65534>>}

NotDelivered == [ok |-> FALSE, payload |-> <<>>]

UdpInit(keys, starts) ==
    /\ aes_key \in keys
    /\ aes_nonce_ = ServerNonce
    /\ local_sequence_ \in starts
    /\ remote_sequence_ = Uint32(0)
    /\ udp_pc = "idle"
    /\ udp_pkt = <<>>
    /\ udp_sent = <<>>
    /\ udp_sent_data = <<>>
    /\ udp_sends = 0
    /\ udp_delivered = NotDelivered


SendAudio(data) ==
    /\ udp_ # "null"
    /\ udp_sends < MaxSends
    /\ LET sequence == Uint32Inc(local_sequence_)
           nonce    == PacketNonce(aes_nonce_, Len(data) % 65536, sequence)
       IN  /\ local_sequence_' = sequence
           /\ udp_sent' = EncryptedPacket(aes_key, nonce, data)
    /\ udp_sent_data' = data
    /\ udp_sends' = udp_sends + 1
    /\ UNCHANGED <<aes_key, aes_nonce_, remote_sequence_, udp_pc, udp_pkt,
                   udp_delivered>>
    /\ UNCHANGED <<bgVars, wfcVars, schedVars, appVars, hsVars, extVars>>

\* A datagram of the peer: built like the device's, from the key and nonce
\* of the peer's hello, with the peer's own sequence (counted from 1, as the
\* device counts its own) and type byte.
ServerPacket(key, type, sequence, data) ==
    EncryptedPacket(key,
        [PacketNonce(ServerNonce, Len(data), Uint32(sequence)) EXCEPT ![1] = type],
        data)

ServerPackets ==
    [key \in AesKeys |->
        {ServerPacket(key, t, s, p) : t \in {AudioPacketType, 2},
                                      s \in 1..MaxSequence,
                                      p \in Payloads}]

\* The datagram socket hands a datagram to its receive thread.
UdpReceivePacket(data) ==
    /\ udp_ # "null"
    /\ udp_pc = "idle"
    /\ udp_pkt' = data
    /\ udp_pc' = "callback"
    /\ udp_delivered' = NotDelivered
    /\ UNCHANGED <<aes_key, aes_nonce_, local_sequence_, remote_sequence_,
                   udp_sent, udp_sent_data, udp_sends>>
    /\ UNCHANGED <<bgVars, wfcVars, schedVars, appVars, hsVars, extVars>>

\* A datagram arrives: one of the peer's, or the device's last datagram
\* sent back to it (the empty datagram when it has sent none).
UdpReceive ==
    /\ udp_ # "null"
    /\ udp_pc = "idle"
    /\ \E data \in ServerPackets[aes_key] \cup {udp_sent} : udp_pkt' = data
    /\ udp_pc' = "callback"
    /\ udp_delivered' = NotDelivered
    /\ UNCHANGED <<aes_key, aes_nonce_, local_sequence_, remote_sequence_,
                   udp_sent, udp_sent_data, udp_sends>>
    /\ UNCHANGED <<bgVars, wfcVars, schedVars, appVars, hsVars, extVars>>

\* The lambda given to udp_->OnMessage.
UdpOnMessage ==
    /\ udp_pc = "callback"
    /\ IF PacketWellFormed(udp_pkt)
          /\ ~PacketStale(PacketSequence(udp_pkt), remote_sequence_)
       THEN /\ udp_delivered' = [ok |-> TRUE,
                                 payload |-> DecryptPacket(aes_key, udp_pkt)]
            /\ remote_sequence_' = PacketSequence(udp_pkt)
            /\ last_incoming_time_' = now
       ELSE UNCHANGED <<udp_delivered, remote_sequence_, last_incoming_time_>>
    /\ udp_pc' = "idle"
    /\ UNCHANGED <<aes_key, aes_nonce_, local_sequence_, udp_pkt, udp_sent,
                   udp_sent_data, udp_sends>>
    /\ UNCHANGED <<bgVars, wfcVars, schedVars, appVars, hsVars, now, moreVars>>

(***************************************************************************)
(* Protocol, MqttProtocol, WebsocketProtocol: the handshake, the session   *)
(* and the control messages                                                *)
(***************************************************************************)
ProtocolKinds == {"mqtt", "websocket"}

\* The peer's hello: an absent session_id is "absent", an absent number is 0;
\* udp tells whether the "udp" object is present.
Hellos ==
    [transport : {"udp", "websocket"},
     session_id : {"absent", "s1", "s2"},
     sample_rate : {0, 16000},
     frame_duration : {0, 60},
     udp : BOOLEAN]

NoHello ==
    [transport |-> "none", session_id |-> "absent", sample_rate |-> 0,
     frame_duration |-> 0, udp |-> FALSE]

\* The control messages Protocol builds around session_id_.
ControlTypes ==
    {"listen_start", "listen_stop", "listen_detect", "abort",
     "iot_descriptors", "iot_states"}

NoText == [type |-> "none", session_id |-> "absent", n |-> 0]

\* A text handed to the link; n alternates so that every send shows.
Text(type, sid) == [type |-> type, session_id |-> sid, n |-> 1 - text_sent.n]

HsInit(kinds, topics, udp) ==
    /\ protocol_kind \in kinds
    /\ publish_topic_ \in topics
    /\ link = IF protocol_kind = "mqtt" THEN "connected" ELSE "none"
    /\ udp_ = udp
    /\ session_id_ = ""
    /\ server_sample_rate_ = 24000
    /\ server_frame_duration_ = 60
    /\ server_hello_event = FALSE
    /\ error_occurred_ = FALSE
    /\ oac_pc = "idle"
    /\ oac_result = "none"
    /\ oac_cause = "none"
    /\ text_sent = NoText
    /\ hello_owed = FALSE
    /\ hs_hello = NoHello
    /\ hello_in_call = FALSE

\* Protocol::SetError
SetError == error_occurred_' = TRUE

\* OpenAudioChannel returns false.
ReturnFalse(cause) ==
    /\ oac_pc' = "idle"
    /\ oac_result' = "false"
    /\ oac_cause' = cause

\* MqttProtocol::SendText; ok is the outcome of mqtt_->Publish.
MqttSendTextSent(ok) == publish_topic_ # "" /\ ok /\ link = "connected"

MqttSendText(type, sid, ok) ==
    IF publish_topic_ = ""
    THEN UNCHANGED <<text_sent, error_occurred_>>
    ELSE IF ok /\ link = "connected"
    THEN text_sent' = Text(type, sid) /\ UNCHANGED error_occurred_
    ELSE SetError /\ UNCHANGED text_sent

\* WebsocketProtocol::SendText; ok is the outcome of websocket_->Send.
WsSendTextSent(ok) == ok /\ link = "connected"

WsSendText(type, sid, ok) ==
    IF link = "none"
    THEN UNCHANGED <<text_sent, error_occurred_>>
    ELSE IF ok /\ link = "connected"
    THEN text_sent' = Text(type, sid) /\ UNCHANGED error_occurred_
    ELSE SetError /\ UNCHANGED text_sent

\* MqttProtocol::OpenAudioChannel up to the hello message: reconnect when
\* the client is not connected, then reset the flags of the last attempt.
MqttOpenAudioChannelBeginBody(ok) ==
    /\ protocol_kind = "mqtt"
    /\ oac_pc = "idle"
    /\ hello_in_call' = FALSE
    /\ IF link # "connected" /\ ~ok
       THEN /\ link' = "disconnected"
            /\ hello_owed' = FALSE
            /\ SetError
            /\ ReturnFalse("connect")
            /\ UNCHANGED <<session_id_, server_hello_event>>
       ELSE /\ link' = "connected"
            /\ hello_owed' = (link = "connected" /\ hello_owed)
            /\ error_occurred_' = FALSE
            /\ session_id_' = ""
            /\ server_hello_event' = FALSE
            /\ oac_pc' = "send"
            /\ oac_result' = "none"
            /\ oac_cause' = "none"
    /\ UNCHANGED <<protocol_kind, publish_topic_, udp_, server_sample_rate_,
                   server_frame_duration_, text_sent, hs_hello>>

\* the same, in a call that leaves the application alone
MqttOpenAudioChannelBegin ==
    /\ \E ok \in BOOLEAN : MqttOpenAudioChannelBeginBody(ok)
    /\ UNCHANGED <<bgVars, wfcVars, schedVars, appVars, udpVars, extVars>>

\* WebsocketProtocol::OpenAudioChannel up to the hello message: the old
\* socket is deleted, a new one created and connected.
WsOpenAudioChannelBeginBody(ok) ==
    /\ protocol_kind = "websocket"
    /\ oac_pc = "idle"
    /\ hello_in_call' = FALSE
    /\ hello_owed' = FALSE
    /\ IF ~ok
       THEN /\ link' = "disconnected"
            /\ SetError
            /\ ReturnFalse("connect")
       ELSE /\ link' = "connected"
            /\ error_occurred_' = FALSE
            /\ oac_pc' = "send"
            /\ oac_result' = "none"
            /\ oac_cause' = "none"
    /\ UNCHANGED <<protocol_kind, publish_topic_, udp_, session_id_,
                   server_sample_rate_, server_frame_duration_,
                   server_hello_event, text_sent, hs_hello>>

\* the same, in a call that leaves the application alone
WsOpenAudioChannelBegin ==
    /\ \E ok \in BOOLEAN : WsOpenAudioChannelBeginBody(ok)
    /\ UNCHANGED <<bgVars, wfcVars, schedVars, appVars, udpVars, extVars>>

\* if (!SendText(message)) return false;
MqttOpenAudioChannelSendHelloBody(ok) ==
    /\ protocol_kind = "mqtt"
    /\ oac_pc = "send"
    /\ MqttSendText("hello", "absent", ok)
    /\ IF MqttSendTextSent(ok)
       THEN /\ oac_pc' = "wait"
            /\ hello_owed' = TRUE
            /\ UNCHANGED <<oac_result, oac_cause>>
       ELSE ReturnFalse("send") /\ UNCHANGED hello_owed
    /\ UNCHANGED <<protocol_kind, publish_topic_, link, udp_, session_id_,
                   server_sample_rate_, server_frame_duration_,
                   server_hello_event, hs_hello, hello_in_call>>

\* the same, in a call that leaves the application alone
MqttOpenAudioChannelSendHello ==
    /\ \E ok \in BOOLEAN : MqttOpenAudioChannelSendHelloBody(ok)
    /\ UNCHANGED <<bgVars, wfcVars, schedVars, appVars, udpVars, extVars>>

WsOpenAudioChannelSendHelloBody(ok) ==
    /\ protocol_kind = "websocket"
    /\ oac_pc = "send"
    /\ WsSendText("hello", "absent", ok)
    /\ IF WsSendTextSent(ok)
       THEN /\ oac_pc' = "wait"
            /\ hello_owed' = TRUE
            /\ UNCHANGED <<oac_result, oac_cause>>
       ELSE ReturnFalse("send") /\ UNCHANGED hello_owed
    /\ UNCHANGED <<protocol_kind, publish_topic_, link, udp_, session_id_,
                   server_sample_rate_, server_frame_duration_,
                   server_hello_event, hs_hello, hello_in_call>>

\* the same, in a call that leaves the application alone
WsOpenAudioChannelSendHello ==
    /\ \E ok \in BOOLEAN : WsOpenAudioChannelSendHelloBody(ok)
    /\ UNCHANGED <<bgVars, wfcVars, schedVars, appVars, udpVars, extVars>>

\* xEventGroupWaitBits(..., pdTRUE, pdFALSE, 10 s): the bit is cleared on
\* exit; then the datagram socket is created.
MqttOpenAudioChannelWaitBody ==
    /\ protocol_kind = "mqtt"
    /\ oac_pc = "wait"
    /\ IF server_hello_event
       THEN /\ server_hello_event' = FALSE
            /\ udp_' = "open"
            /\ oac_pc' = "idle"
            /\ oac_result' = "true"
            /\ oac_cause' = "none"
            /\ UNCHANGED error_occurred_
       ELSE /\ SetError
            /\ ReturnFalse("timeout")
            /\ UNCHANGED <<server_hello_event, udp_>>
    /\ UNCHANGED <<protocol_kind, publish_topic_, link, session_id_,
                   server_sample_rate_, server_frame_duration_, text_sent,
                   hello_owed, hs_hello, hello_in_call>>

\* the same, in a call that leaves the application alone
MqttOpenAudioChannelWait ==
    /\ MqttOpenAudioChannelWaitBody
    /\ UNCHANGED <<bgVars, wfcVars, schedVars, appVars, udpVars, extVars>>

WsOpenAudioChannelWaitBody ==
    /\ protocol_kind = "websocket"
    /\ oac_pc = "wait"
    /\ IF server_hello_event
       THEN /\ server_hello_event' = FALSE
            /\ oac_pc' = "idle"
            /\ oac_result' = "true"
            /\ oac_cause' = "none"
            /\ UNCHANGED error_occurred_
       ELSE /\ SetError
            /\ ReturnFalse("timeout")
            /\ UNCHANGED server_hello_event
    /\ UNCHANGED <<protocol_kind, publish_topic_, link, udp_, session_id_,
                   server_sample_rate_, server_frame_duration_, text_sent,
                   hello_owed, hs_hello, hello_in_call>>

\* the same, in a call that leaves the application alone
WsOpenAudioChannelWait ==
    /\ WsOpenAudioChannelWaitBody
    /\ UNCHANGED <<bgVars, wfcVars, schedVars, appVars, udpVars, extVars>>

\* audio_params of a hello, as both ParseServerHello read them.
ParseAudioParams(h) ==
    /\ server_sample_rate_' = IF h.sample_rate # 0 THEN h.sample_rate
                              ELSE server_sample_rate_
    /\ server_frame_duration_' = IF h.frame_duration # 0 THEN h.frame_duration
                                 ELSE server_frame_duration_

\* The peer answers the device's hello and mqtt_'s message callback hands
\* the answer to MqttProtocol::ParseServerHello, then notes the time.
MqttParseServerHello(h) ==
    /\ protocol_kind = "mqtt"
    /\ link = "connected"
    /\ hello_owed
    /\ hello_owed' = FALSE
    /\ last_incoming_time_' = now
    /\ IF h.transport # "udp"
       THEN UNCHANGED <<hs_hello, session_id_, server_sample_rate_,
                        server_frame_duration_, server_hello_event,
                        hello_in_call, local_sequence_, remote_sequence_>>
       ELSE /\ hs_hello' = h
            /\ session_id_' = IF h.session_id # "absent" THEN h.session_id
                              ELSE session_id_
            /\ ParseAudioParams(h)
            /\ IF ~h.udp
               THEN UNCHANGED <<server_hello_event, hello_in_call,
                                local_sequence_, remote_sequence_>>
               ELSE /\ local_sequence_' = Uint32(0)
                    /\ remote_sequence_' = Uint32(0)
                    /\ server_hello_event' = TRUE
                    /\ hello_in_call' = (hello_in_call \/ oac_pc # "idle")
    /\ UNCHANGED <<protocol_kind, publish_topic_, link, udp_, error_occurred_,
                   oac_pc, oac_result, oac_cause, text_sent>>
    /\ UNCHANGED <<aes_key, aes_nonce_, udp_pc, udp_pkt, udp_sent,
                   udp_sent_data, udp_sends, udp_delivered>>
    /\ UNCHANGED <<bgVars, wfcVars, schedVars, appVars, now, moreVars>>

\* The same for websocket_'s data callback and
\* WebsocketProtocol::ParseServerHello.
WsParseServerHello(h) ==
    /\ protocol_kind = "websocket"
    /\ link = "connected"
    /\ hello_owed
    /\ hello_owed' = FALSE
    /\ last_incoming_time_' = now
    /\ IF h.transport # "websocket"
       THEN UNCHANGED <<hs_hello, server_sample_rate_, server_frame_duration_,
                        server_hello_event, hello_in_call>>
       ELSE /\ hs_hello' = h
            /\ ParseAudioParams(h)
            /\ server_hello_event' = TRUE
            /\ hello_in_call' = (hello_in_call \/ oac_pc # "idle")
    /\ UNCHANGED <<protocol_kind, publish_topic_, link, udp_, session_id_,
                   error_occurred_, oac_pc, oac_result, oac_cause, text_sent>>
    /\ UNCHANGED <<bgVars, wfcVars, schedVars, appVars, udpVars, now, moreVars>>

\* Protocol::SendAbortSpeaking, SendWakeWordDetected, SendStartListening,
\* SendStopListening, SendIotDescriptors, SendIotStates: the message carries
\* session_id_ and goes to the subclass's SendText.
SendControlBody(type, ok) ==
    /\ oac_pc = "idle"
    /\ IF protocol_kind = "mqtt"
       THEN MqttSendText(type, session_id_, ok)
       ELSE WsSendText(type, session_id_, ok)
    /\ UNCHANGED <<protocol_kind, publish_topic_, link, udp_, session_id_,
                   server_sample_rate_, server_frame_duration_,
                   server_hello_event, oac_pc, oac_result, oac_cause,
                   hello_owed, hs_hello, hello_in_call>>

\* the same, in a call that leaves the application alone
SendControl(type) ==
    /\ \E ok \in BOOLEAN : SendControlBody(type, ok)
    /\ UNCHANGED <<bgVars, wfcVars, schedVars, appVars, udpVars, extVars>>

\* MqttProtocol::CloseAudioChannel: udp_ is deleted and goodbye is sent.
MqttCloseAudioChannelBody(ok) ==
    /\ protocol_kind = "mqtt"
    /\ oac_pc = "idle"
    /\ udp_' = "null"
    /\ MqttSendText("goodbye", session_id_, ok)
    /\ oac_result' = "none"
    /\ oac_cause' = "none"
    /\ UNCHANGED <<protocol_kind, publish_topic_, link, session_id_,
                   server_sample_rate_, server_frame_duration_,
                   server_hello_event, oac_pc, hello_owed, hs_hello,
                   hello_in_call>>

\* the same, in a call that leaves the application alone
MqttCloseAudioChannel ==
    /\ \E ok \in BOOLEAN : MqttCloseAudioChannelBody(ok)
    /\ UNCHANGED <<bgVars, wfcVars, schedVars, appVars, udpVars, extVars>>

\* WebsocketProtocol::CloseAudioChannel: websocket_ is deleted.
WsCloseAudioChannel ==
    /\ protocol_kind = "websocket"
    /\ oac_pc = "idle"
    /\ link' = "none"
    /\ hello_owed' = FALSE
    /\ oac_result' = "none"
    /\ oac_cause' = "none"
    /\ UNCHANGED <<protocol_kind, publish_topic_, udp_, session_id_,
                   server_sample_rate_, server_frame_duration_,
                   server_hello_event, error_occurred_, oac_pc, text_sent,
                   hs_hello, hello_in_call>>
    /\ UNCHANGED <<bgVars, wfcVars, schedVars, appVars, udpVars, extVars>>

\* The network drops the link (mqtt_'s and websocket_'s OnDisconnected).
LinkDisconnected ==
    /\ link = "connected"
    /\ link' = "disconnected"
    /\ hello_owed' = FALSE
    /\ UNCHANGED <<protocol_kind, publish_topic_, udp_, session_id_,
                   server_sample_rate_, server_frame_duration_,
                   server_hello_event, error_occurred_, oac_pc, oac_result,
                   oac_cause, text_sent, hs_hello, hello_in_call>>
    /\ UNCHANGED <<bgVars, wfcVars, schedVars, appVars, udpVars, extVars>>

(***************************************************************************)
(* Protocol: the silence timeout                                           *)
(***************************************************************************)
kTimeoutSeconds == 120

\* (mutation of IsTimeout: the window is closed at 120 s, not after it)
IsTimeout_AtLeast == now - last_incoming_time_ >= kTimeoutSeconds

\* Protocol::IsTimeout: duration_cast<seconds>(now - last_incoming_time_)
\* is greater than kTimeoutSeconds
IsTimeout == now - last_incoming_time_ > kTimeoutSeconds

MqttIsAudioChannelOpened ==
    udp_ # "null" /\ ~error_occurred_ /\ ~IsTimeout

\* websocket_ != nullptr && websocket_->IsConnected() && ...
WsIsAudioChannelOpened ==
    link = "connected" /\ ~error_occurred_ /\ ~IsTimeout

\* protocol_->IsAudioChannelOpened()
IsAudioChannelOpened ==
    IF protocol_kind = "mqtt" THEN MqttIsAudioChannelOpened
    ELSE WsIsAudioChannelOpened

\* Time passes in steps of half the window and of a second more, so that a
\* message becomes kTimeoutSeconds and kTimeoutSeconds + 1 seconds old.
TickSteps == {kTimeoutSeconds \div 2, kTimeoutSeconds \div 2 + 1}

\* d seconds of the steady clock pass
Tick(d) ==
    /\ now + d <= MaxNow
    /\ now' = now + d
    /\ UNCHANGED last_incoming_time_
    /\ UNCHANGED <<bgVars, wfcVars, schedVars, appVars, protoVars, moreVars>>

\* What mqtt_'s message callback is given, other than a hello: a payload
\* cJSON_Parse rejects, a JSON text without "type", a JSON text with a type
\* that goes to on_incoming_json_.
JsonKinds == {"unparseable", "no_type", "json"}

\* mqtt_'s message callback: the two early returns leave last_incoming_time_
MqttOnJson(m) ==
    /\ protocol_kind = "mqtt"
    /\ link = "connected"
    /\ last_incoming_time_' = IF m \in {"unparseable", "no_type"}
                              THEN last_incoming_time_ ELSE now
    /\ UNCHANGED now
    /\ UNCHANGED <<bgVars, wfcVars, schedVars, appVars, protoVars, moreVars>>

\* websocket_'s data callback for a binary frame (on_incoming_audio_ is given
\* the frame) and for a text frame other than a hello
WsOnData(binary) ==
    /\ protocol_kind = "websocket"
    /\ link = "connected"
    /\ udp_delivered' = IF binary THEN [ok |-> TRUE, payload |-> PayloadOf(1)]
                         ELSE udp_delivered
    /\ last_incoming_time_' = now
    /\ UNCHANGED now
    /\ UNCHANGED <<aes_key, aes_nonce_, local_sequence_, remote_sequence_,
                   udp_pc, udp_pkt, udp_sent, udp_sent_data, udp_sends>>
    /\ UNCHANGED <<bgVars, wfcVars, schedVars, appVars, hsVars, moreVars>>

(***************************************************************************)
(* The threads that call into Application                                  *)
(***************************************************************************)
\* A step of a handler: an operation on the device state, the transport or
\* the display, or a call of Schedule with a closure (the steps the closure
\* will run).  A step is skipped when device_state_ is not in `when`.
OpStep(op, arg, when) ==
    [k |-> "op", op |-> op, arg |-> arg, when |-> when, ops |-> <<>>]

SchedStep(ops, when) ==
    [k |-> "schedule", op |-> "none", arg |-> "none", when |-> when, ops |-> ops]

\* a closure of the model of the threads
OpsClosure(ops) == [id |-> 0, nested |-> FALSE, ops |-> ops]

\* the callback given to protocol_->OnNetworkError
OnNetworkError ==
    <<OpStep("SetDeviceState", "Idle", DeviceStates),
      OpStep("Alert", "none", DeviceStates)>>

\* Application::Start up to MainEventLoop: SetDeviceState(Starting),
\* CheckNewVersion (SetDeviceState(Activating)), protocol_ is created, given
\* its callbacks and started, SetDeviceState(Idle)
StartSteps ==
    <<OpStep("SetDeviceState", "Starting", DeviceStates),
      OpStep("SetDeviceState", "Activating", DeviceStates),
      OpStep("ProtocolStart", "none", DeviceStates),
      OpStep("SetDeviceState", "Idle", DeviceStates)>>

\* protocol_ is not null and protocol_->Start() has returned
ProtocolStarted ==
    /\ thr_op["main"] # "ProtocolStart"
    /\ \A i \in DOMAIN thr_todo["main"] :
           thr_todo["main"][i].op # "ProtocolStart"

\* Application::ToggleChatState, by the value of device_state_ it reads and
\* by whether protocol_ is set
ToggleChatState(state, protocol) ==
    CASE state = "Activating" ->
            <<OpStep("SetDeviceState", "Idle", DeviceStates)>>
      [] ~protocol -> <<>>
      [] state = "Idle" ->
            <<SchedStep(<<OpStep("SetDeviceState", "Connecting", DeviceStates),
                          OpStep("SendText", "hello", DeviceStates),
                          OpStep("SetDeviceState", "Listening", DeviceStates)>>,
                        DeviceStates)>>
      [] state = "Speaking" ->
            <<SchedStep(<<OpStep("SendText", "abort", DeviceStates)>>,
                        DeviceStates)>>
      [] state = "Listening" ->
            \* CloseAudioChannel, whose on_audio_channel_closed_ callback
            \* schedules SetDeviceState(Idle)
            <<SchedStep(<<OpStep("SendText", "goodbye", DeviceStates),
                          SchedStep(<<OpStep("SetDeviceState", "Idle", DeviceStates)>>,
                                    DeviceStates)>>,
                        DeviceStates)>>
      [] OTHER -> <<>>

\* UartListenTask, a status frame: protocol_->SendCustomText, then the
\* closure with SetDeviceState(Speaking) when the device is Listening
UartStatusFrame ==
    <<OpStep("SendText", "text2speech", DeviceStates),
      SchedStep(<<OpStep("SetDeviceState", "Speaking", DeviceStates)>>,
                {"Listening"})>>

\* the callback given to protocol_->OnIncomingJson, by the type of the message
OnIncomingJson(type) ==
    CASE type = "tts_start" ->
            <<SchedStep(<<OpStep("SetDeviceState", "Speaking",
                                 {"Idle", "Listening"})>>, DeviceStates)>>
      [] type = "alert" ->
            <<OpStep("Alert", "none", DeviceStates)>>
      [] OTHER -> <<>>

JsonTypes == {"tts_start", "alert"}

\* OnClockTimer every tenth tick: the closure that shows the time
ClockTimerSteps ==
    <<SchedStep(<<OpStep("SetStatus", "none", DeviceStates)>>, {"Idle"})>>

\* the handlers a thread other than the main task may be called with
HandlersOf(t) ==
    CASE t = "transport" -> IF ProtocolStarted
                            THEN {OnIncomingJson(type) : type \in JsonTypes}
                            ELSE {}
      [] t = "button"    -> {ToggleChatState(device_state_, ProtocolStarted)}
                            \ {<<>>}
      [] t = "uart"      -> IF ProtocolStarted THEN {UartStatusFrame} ELSE {}
      [] t = "timer"     -> {ClockTimerSteps}
      [] OTHER           -> {}

\* a thread is called with one of its handlers
HandlerCall(t) ==
    /\ thr_todo[t] = <<>>
    /\ thr_op[t] = "none"
    /\ \E steps \in HandlersOf(t) : thr_todo' = [thr_todo EXCEPT ![t] = steps]
    /\ UNCHANGED <<thr_op, device_state_, appRestVars>>
    /\ UNCHANGED <<bgVars, wfcVars, schedVars, protoVars, notThrVars>>

\* a step whose condition on device_state_ does not hold is passed over
ThreadSkip(t) ==
    /\ thr_todo[t] # <<>>
    /\ thr_op[t] = "none"
    /\ device_state_ \notin Head(thr_todo[t]).when
    /\ thr_todo' = [thr_todo EXCEPT ![t] = Tail(thr_todo[t])]
    /\ UNCHANGED <<thr_op, device_state_, appRestVars>>
    /\ UNCHANGED <<bgVars, wfcVars, schedVars, protoVars, notThrVars>>

\* a thread enters the operation of its next step; SetDeviceState assigns
\* device_state_
ThreadBeginOp(t) ==
    /\ thr_todo[t] # <<>>
    /\ thr_op[t] = "none"
    /\ Head(thr_todo[t]).k = "op"
    /\ device_state_ \in Head(thr_todo[t]).when
    /\ thr_op' = [thr_op EXCEPT ![t] = Head(thr_todo[t]).op]
    /\ device_state_' = IF Head(thr_todo[t]).op = "SetDeviceState"
                         THEN Head(thr_todo[t]).arg ELSE device_state_
    /\ UNCHANGED <<thr_todo, appRestVars>>
    /\ UNCHANGED <<bgVars, wfcVars, schedVars, protoVars, notThrVars>>

\* a thread leaves the operation it is inside; a send that fails calls
\* SetError, which runs the network-error callback on the same thread, and a
\* failed hello ends the closure of OpenAudioChannel
ThreadEndOp(t) ==
    /\ thr_op[t] # "none"
    /\ thr_op' = [thr_op EXCEPT ![t] = "none"]
    /\ \E ok \in BOOLEAN :
          thr_todo' = [thr_todo EXCEPT ![t] =
              IF thr_op[t] = "SendText" /\ ~ok
              THEN OnNetworkError \o (IF Head(thr_todo[t]).arg = "hello" THEN <<>>
                                      ELSE Tail(thr_todo[t]))
              ELSE Tail(thr_todo[t])]
    /\ UNCHANGED <<device_state_, appRestVars>>
    /\ UNCHANGED <<bgVars, wfcVars, schedVars, protoVars, notThrVars>>

\* a thread calls Application::Schedule with the closure of its next step
ThreadSchedule(t) ==
    /\ thr_todo[t] # <<>>
    /\ thr_op[t] = "none"
    /\ Head(thr_todo[t]).k = "schedule"
    /\ device_state_ \in Head(thr_todo[t]).when
    /\ Len(app_main_tasks) + Len(loop_tasks) < MaxPending
    /\ app_main_tasks' = AppendClosure(app_main_tasks,
                                        OpsClosure(Head(thr_todo[t]).ops))
    /\ schedule_event' = TRUE
    /\ thr_todo' = [thr_todo EXCEPT ![t] = Tail(thr_todo[t])]
    /\ UNCHANGED <<loop_pc, loop_tasks, sch_pc, next_closure, exec_log>>
    /\ UNCHANGED <<thr_op, device_state_, appRestVars>>
    /\ UNCHANGED <<bgVars, wfcVars, protoVars, notThrVars>>

\* Application::Start calls MainEventLoop
MainEventLoopCall ==
    /\ loop_pc = "start"
    /\ thr_todo["main"] = <<>>
    /\ thr_op["main"] = "none"
    /\ loop_pc' = "wait"
    /\ UNCHANGED <<app_main_tasks, schedule_event, loop_tasks, sch_pc,
                   next_closure, exec_log>>
    /\ UNCHANGED <<appVars, bgVars, wfcVars, protoVars, extVars>>

\* MainEventLoop: task() is called for the next closure of the batch
LoopTaskBegin ==
    /\ loop_pc = "run"
    /\ thr_todo' = [thr_todo EXCEPT !["main"] = Head(loop_tasks).ops]
    /\ loop_pc' = "task"
    /\ UNCHANGED <<app_main_tasks, schedule_event, loop_tasks, sch_pc,
                   next_closure, exec_log>>
    /\ UNCHANGED <<thr_op, appVars, bgVars, wfcVars, protoVars, notThrVars>>

\* MainEventLoop: task() has returned
LoopTaskEnd ==
    /\ loop_pc = "task"
    /\ thr_todo["main"] = <<>>
    /\ thr_op["main"] = "none"
    /\ loop_tasks' = Tail(loop_tasks)
    /\ loop_pc' = IF Tail(loop_tasks) = <<>> THEN "wait" ELSE "run"
    /\ UNCHANGED <<app_main_tasks, schedule_event, sch_pc, next_closure, exec_log>>
    /\ UNCHANGED <<appVars, bgVars, wfcVars, protoVars, extVars>>

(***************************************************************************)
(* MqttProtocol: the goodbye of the peer                                   *)
(***************************************************************************)
\* the session_id member of a goodbye of the peer
GoodbyeIds == {"absent", "s1", "s2"}

\* (mutation of GoodbyeMatches: the session id is not compared)
GoodbyeMatches_Any(sid, current) == TRUE

\* session_id == nullptr || session_id_ == session_id->valuestring
GoodbyeMatches(sid, current) == sid = "absent" \/ sid = current

\* [this]() { CloseAudioChannel(); }
CloseClosure == OpsClosure(<<OpStep("CloseAudioChannel", "none", DeviceStates)>>)

\* the closure of the OnAudioChannelClosed callback: SetDeviceState(Idle)
IdleClosure == OpsClosure(<<OpStep("SetDeviceState", "Idle", DeviceStates)>>)

\* the closure of a tts start message: SetDeviceState(Speaking) when Idle or
\* Listening
SpeakingClosure ==
    OpsClosure(<<OpStep("SetDeviceState", "Speaking", {"Idle", "Listening"})>>)

\* mqtt_'s message callback for a goodbye, on the transport's thread: the
\* closure is given to Application::Schedule when the session id matches or
\* is absent; last_incoming_time_ is set either way
MqttOnGoodbye(sid) ==
    /\ protocol_kind = "mqtt"
    /\ link = "connected"
    /\ IF GoodbyeMatches(sid, session_id_)
       THEN /\ Len(app_main_tasks) + Len(loop_tasks) < MaxPending
            /\ app_main_tasks' = AppendClosure(app_main_tasks, CloseClosure)
            /\ schedule_event' = TRUE
       ELSE UNCHANGED <<app_main_tasks, schedule_event>>
    /\ last_incoming_time_' = now
    /\ UNCHANGED <<loop_pc, loop_tasks, sch_pc, next_closure, exec_log>>
    /\ UNCHANGED <<bgVars, wfcVars, appVars, protoVars, now, moreVars>>

\* mqtt_'s message callback for a tts start: on_incoming_json_ schedules the
\* closure
MqttOnTtsStart ==
    /\ protocol_kind = "mqtt"
    /\ link = "connected"
    /\ Len(app_main_tasks) + Len(loop_tasks) < MaxPending
    /\ app_main_tasks' = AppendClosure(app_main_tasks, SpeakingClosure)
    /\ schedule_event' = TRUE
    /\ last_incoming_time_' = now
    /\ UNCHANGED <<loop_pc, loop_tasks, sch_pc, next_closure, exec_log>>
    /\ UNCHANGED <<bgVars, wfcVars, appVars, protoVars, now, moreVars>>

\* MainEventLoop runs the closure with CloseAudioChannel: udp_ is deleted,
\* goodbye is sent (a failed send calls SetError and with it the
\* network-error callback: SetDeviceState(Idle), Alert), and the
\* OnAudioChannelClosed callback schedules SetDeviceState(Idle)
LoopRunCloseAudioChannel ==
    /\ loop_pc = "run"
    /\ Head(loop_tasks) = CloseClosure
    /\ udp_' = "null"
    /\ \E ok \in BOOLEAN :
          /\ MqttSendText("goodbye", session_id_, ok)
          /\ device_state_' = IF publish_topic_ # "" /\ ~MqttSendTextSent(ok)
                               THEN "Idle" ELSE device_state_
    /\ oac_result' = "none"
    /\ oac_cause' = "none"
    /\ app_main_tasks' = AppendClosure(app_main_tasks, IdleClosure)
    /\ schedule_event' = TRUE
    /\ loop_tasks' = Tail(loop_tasks)
    /\ loop_pc' = IF Tail(loop_tasks) = <<>> THEN "wait" ELSE "run"
    /\ UNCHANGED <<sch_pc, next_closure, exec_log>>
    /\ UNCHANGED <<protocol_kind, publish_topic_, link, session_id_,
                   server_sample_rate_, server_frame_duration_,
                   server_hello_event, oac_pc, hello_owed, hs_hello,
                   hello_in_call>>
    /\ UNCHANGED <<appRestVars, bgVars, wfcVars, udpVars, extVars>>

\* MainEventLoop runs a closure with SetDeviceState(S): nothing when the
\* closure's test of device_state_ fails
LoopRunSetDeviceState ==
    /\ loop_pc = "run"
    /\ Head(loop_tasks) \in {IdleClosure, SpeakingClosure}
    /\ LET step == Head(Head(loop_tasks).ops)
       IN  device_state_' = IF device_state_ \in step.when
                            THEN step.arg ELSE device_state_
    /\ loop_tasks' = Tail(loop_tasks)
    /\ loop_pc' = IF Tail(loop_tasks) = <<>> THEN "wait" ELSE "run"
    /\ UNCHANGED <<app_main_tasks, schedule_event, sch_pc, next_closure, exec_log>>
    /\ UNCHANGED <<appRestVars, bgVars, wfcVars, protoVars, extVars>>

(***************************************************************************)
(* Application::CheckNewVersion                                            *)
(***************************************************************************)
MAX_RETRY == 10

\* (mutation of RetriesExhausted: the test is > instead of >=)
RetriesExhausted_Greater(count) == count > MAX_RETRY

\* if (retry_count >= MAX_RETRY) return;
RetriesExhausted(count) == count >= MAX_RETRY

\* what a successful CheckVersion leads to: the upgrade (and the reboot), the
\* end of the loop (no activation asked for), or the activation loop and then
\* the top of the while loop again
CheckOutcomes == {"upgrade", "done", "activate"}

\* Start: SetDeviceState(kDeviceStateStarting) ... CheckNewVersion() is called,
\* retry_count = 0, retry_delay = 10
CnvStart ==
    /\ cnv_pc = "start"
    /\ device_state_' = "Starting"
    /\ retry_count' = 0
    /\ retry_delay' = 10
    /\ cnv_pc' = "top"
    /\ UNCHANGED <<cnv_i, cnv_waited, cnv_calls>>
    /\ UNCHANGED <<bgVars, wfcVars, schedVars, appRestVars, protoVars, notCnvVars>>

\* the top of while (true): SetDeviceState(kDeviceStateActivating), whose
\* entry actions are empty, and the status line
CnvLoopTop ==
    /\ cnv_pc = "top"
    /\ device_state_' = "Activating"
    /\ cnv_pc' = "check"
    /\ UNCHANGED <<retry_count, retry_delay, cnv_i, cnv_waited, cnv_calls>>
    /\ UNCHANGED <<bgVars, wfcVars, schedVars, appRestVars, protoVars, notCnvVars>>

\* ota_.CheckVersion() returns ok; on failure retry_count++ and the return or
\* the start of the wait, on success retry_count = 0, retry_delay = 10
CnvCheckVersion(ok, then) ==
    /\ cnv_pc = "check"
    /\ cnv_waited' = 0
    /\ IF ~ok
       THEN /\ then = "done"
            /\ retry_count' = retry_count + 1
            /\ cnv_calls' = cnv_calls + 1
            /\ cnv_i' = 0
            /\ cnv_pc' = IF RetriesExhausted(retry_count + 1) THEN "returned" ELSE "wait"
            /\ UNCHANGED retry_delay
       ELSE /\ retry_count' = 0
            /\ retry_delay' = 10
            /\ cnv_calls' = 0
            /\ cnv_pc' = IF then = "activate" THEN "top" ELSE then
            /\ UNCHANGED cnv_i
    /\ UNCHANGED device_state_
    /\ UNCHANGED <<bgVars, wfcVars, schedVars, appRestVars, protoVars, notCnvVars>>

\* one turn of for (i = 0; i < retry_delay; i++): vTaskDelay(1000 ms), break
\* when device_state_ is Idle; after the loop retry_delay *= 2 and continue
CnvWaitSecond ==
    /\ cnv_pc = "wait"
    /\ cnv_i < retry_delay
    /\ cnv_waited' = cnv_waited + 1
    /\ IF device_state_ = "Idle" \/ cnv_i + 1 >= retry_delay
       THEN /\ retry_delay' = retry_delay * 2
            /\ cnv_pc' = "top"
            /\ UNCHANGED cnv_i
       ELSE /\ cnv_i' = cnv_i + 1
            /\ UNCHANGED <<retry_delay, cnv_pc>>
    /\ UNCHANGED <<retry_count, cnv_calls, device_state_>>
    /\ UNCHANGED <<bgVars, wfcVars, schedVars, appRestVars, protoVars, notCnvVars>>

\* ToggleChatState (ChangeChatState, StartListening) on the button's thread:
\* if (device_state_ == kDeviceStateActivating) SetDeviceState(kDeviceStateIdle)
ToggleWhileActivating ==
    /\ device_state_ = "Activating"
    /\ device_state_' = "Idle"
    /\ UNCHANGED <<bgVars, wfcVars, schedVars, appRestVars, protoVars, extVars>>

(***************************************************************************)
(* Protocol::SetError and the callback of Application for network errors   *)
(***************************************************************************)
NoSend == [ret |-> "none", n |-> 0]

\* SendText of the subclass returns true: the link took the text
SendTextSent(ok) ==
    IF protocol_kind = "mqtt" THEN MqttSendTextSent(ok) ELSE WsSendTextSent(ok)

\* what SendText returned: history
SendTextReturns(ok) ==
    last_send' = [ret |-> IF SendTextSent(ok) THEN "true" ELSE "false",
                  n |-> 1 - last_send.n]

\* (mutation of SendTextSetsError: every send that returns false reports)
SendTextSetsError_AnyFailure(ok) == ~SendTextSent(ok)

\* SendText of the subclass reaches SetError: Publish (Send) was called and
\* failed; with no publish topic (no websocket_) it returns false before
SendTextSetsError(ok) ==
    IF protocol_kind = "mqtt"
    THEN publish_topic_ # "" /\ ~(ok /\ link = "connected")
    ELSE link # "none" /\ ~(ok /\ link = "connected")

\* Protocol::SetError calls on_network_error_ before it returns: the thread
\* that called into the transport runs the callback next
SetErrorCallback(called) ==
    /\ ctl_pc = "idle"
    /\ ctl_pc' = IF called THEN "net_err" ELSE "idle"
    /\ UNCHANGED <<ctl_target, ctl_cue, ctl_barrier, ctl_sent>>
    /\ UNCHANGED <<stateVars, codecVars, aoVars, netVars, audio_decode_queue_>>

\* OpenAudioChannel up to the hello message, called by the application
ErrOpenAudioChannelBegin ==
    /\ \E ok \in BOOLEAN :
          IF protocol_kind = "mqtt"
          THEN /\ MqttOpenAudioChannelBeginBody(ok)
               /\ SetErrorCallback(link # "connected" /\ ~ok)
          ELSE /\ WsOpenAudioChannelBeginBody(ok)
               /\ SetErrorCallback(~ok)
    /\ UNCHANGED last_send
    /\ UNCHANGED <<bgVars, wfcVars, schedVars, udpVars, notErrVars>>

\* OpenAudioChannel: the hello message is sent
ErrOpenAudioChannelSendHello ==
    /\ \E ok \in BOOLEAN :
          /\ IF protocol_kind = "mqtt"
             THEN MqttOpenAudioChannelSendHelloBody(ok)
             ELSE WsOpenAudioChannelSendHelloBody(ok)
          /\ SetErrorCallback(SendTextSetsError(ok))
          /\ SendTextReturns(ok)
    /\ UNCHANGED <<bgVars, wfcVars, schedVars, udpVars, notErrVars>>

\* OpenAudioChannel: the wait for the hello of the peer ends
ErrOpenAudioChannelWait ==
    /\ IF protocol_kind = "mqtt"
       THEN MqttOpenAudioChannelWaitBody
       ELSE WsOpenAudioChannelWaitBody
    /\ SetErrorCallback(~server_hello_event)
    /\ UNCHANGED last_send
    /\ UNCHANGED <<bgVars, wfcVars, schedVars, udpVars, notErrVars>>

\* a control message is sent by the application
ErrSendControl(type) ==
    /\ \E ok \in BOOLEAN :
          /\ SendControlBody(type, ok)
          /\ SetErrorCallback(SendTextSetsError(ok))
          /\ SendTextReturns(ok)
    /\ UNCHANGED <<bgVars, wfcVars, schedVars, udpVars, notErrVars>>

\* CloseAudioChannel, called by the application; only MQTT sends a text
ErrCloseAudioChannel ==
    IF protocol_kind = "mqtt"
    THEN /\ \E ok \in BOOLEAN :
               /\ MqttCloseAudioChannelBody(ok)
               /\ SetErrorCallback(SendTextSetsError(ok))
               /\ SendTextReturns(ok)
         /\ UNCHANGED <<bgVars, wfcVars, schedVars, udpVars, notErrVars>>
    ELSE ctl_pc = "idle" /\ WsCloseAudioChannel

\* The callback given to protocol_->OnNetworkError:
\* SetDeviceState(kDeviceStateIdle), then Alert(ERROR, message, "sad",
\* P3_EXCLAMATION): ResetDecoder() and PlaySound up to its first wait.
OnNetworkErrorRun ==
    /\ ctl_pc = "net_err"
    /\ device_state_ # "Idle" => WaitForCompletionReady
    /\ device_state_' = "Idle"
    /\ IF device_state_ = "Idle"
       THEN UNCHANGED <<clock_ticks_, audio_processor_running,
                        wake_word_running>>
       ELSE /\ clock_ticks_' = 0
            /\ audio_processor_running' = FALSE
            /\ wake_word_running' = TRUE
    /\ audio_decode_queue_' = <<>>
    /\ output_enabled' = TRUE
    /\ \E n \in 1..MaxCueLen : ctl_cue' = CuePackets(1, n)
    /\ ctl_pc' = "ps_wait"
    /\ UNCHANGED <<listening_mode_, aborted_, decoder_sample_rate, ctl_target,
                   ctl_barrier, ctl_sent, aoVars, netVars>>
    /\ UNCHANGED <<bgVars, wfcVars, schedVars, protoVars, extVars>>

(***************************************************************************)
(* Inbound control messages that lack a member                             *)
(***************************************************************************)
\* A text message of the peer that lacks a member its handler reads: no
\* type; "tts" without state; "hello" without transport; "hello" with the
\* transport "udp" and no udp object, or with a udp object that lacks
\* server, port, key or nonce.
MalformedKinds ==
    {"no_type", "tts_no_state", "hello_no_transport", "hello_no_udp",
     "hello_udp_incomplete"}

\* The member a handler reads through the null pointer that
\* cJSON_GetObjectItem returned: state->valuestring in on_incoming_json_,
\* transport->valuestring in the ESP_LOGE of both ParseServerHello,
\* cJSON_GetObjectItem(udp, "server")->valuestring (port, key, nonce) in
\* MqttProtocol::ParseServerHello.
NullRead(kind) ==
    CASE kind = "tts_no_state" -> "state"
      [] kind = "hello_no_transport" -> "transport"
      [] kind = "hello_udp_incomplete" /\ protocol_kind = "mqtt" -> "udp"
      [] OTHER -> "none"

\* The message callback of mqtt_ (websocket_) is called with such a message.
\* A read through a null pointer is undefined: the firmware stops, or the
\* handler goes on with whatever the read gave: a tts state that may compare
\* equal to "start" (the closure that enters Speaking is scheduled), udp
\* members of any value (the handshake completes with them).
OnMalformedMessage(kind) ==
    /\ link = "connected"
    /\ ~halted
    /\ kind \in {"hello_no_udp", "hello_udp_incomplete"} => protocol_kind = "mqtt"
    /\ invalid_access' = IF NullRead(kind) # "none" THEN NullRead(kind)
                         ELSE invalid_access
    /\ halted' \in IF NullRead(kind) # "none" THEN BOOLEAN ELSE {FALSE}
    /\ IF halted'
       THEN UNCHANGED <<app_main_tasks, schedule_event, session_id_,
                        server_hello_event, hello_in_call, aes_key,
                        local_sequence_, remote_sequence_, last_incoming_time_>>
       ELSE /\ IF NullRead(kind) = "state"
               THEN \E start \in BOOLEAN :
                       IF start
                       THEN /\ Len(app_main_tasks) + Len(loop_tasks) < MaxPending
                            /\ app_main_tasks' = AppendClosure(app_main_tasks,
                                                                SpeakingClosure)
                            /\ schedule_event' = TRUE
                       ELSE UNCHANGED <<app_main_tasks, schedule_event>>
               ELSE UNCHANGED <<app_main_tasks, schedule_event>>
            \* ParseServerHello of MQTT takes the session id before it
            \* looks for the udp object
            /\ session_id_' = IF kind \in {"hello_no_udp", "hello_udp_incomplete"}
                              THEN "s2" ELSE session_id_
            /\ IF NullRead(kind) = "udp"
               THEN /\ aes_key' \in AesKeys
                    /\ local_sequence_' = Uint32(0)
                    /\ remote_sequence_' = Uint32(0)
                    /\ server_hello_event' = TRUE
                    /\ hello_in_call' = (hello_in_call \/ oac_pc # "idle")
               ELSE UNCHANGED <<aes_key, local_sequence_, remote_sequence_,
                                server_hello_event, hello_in_call>>
            \* mqtt_'s callback returns before the assignment when the type
            \* is missing
            /\ last_incoming_time_' =
                  IF kind = "no_type" /\ protocol_kind = "mqtt"
                  THEN last_incoming_time_ ELSE now
    /\ UNCHANGED <<loop_pc, loop_tasks, sch_pc, next_closure, exec_log>>
    /\ UNCHANGED <<protocol_kind, publish_topic_, link, udp_,
                   server_sample_rate_, server_frame_duration_,
                   error_occurred_, oac_pc, oac_result, oac_cause, text_sent,
                   hello_owed, hs_hello>>
    /\ UNCHANGED <<aes_nonce_, udp_pc, udp_pkt, udp_sent, udp_sent_data,
                   udp_sends, udp_delivered>>
    /\ UNCHANGED <<bgVars, wfcVars, appVars, now, thrVars, lsnVars, cnvVars,
                   abVars, errVars, upgVars, actVars, fifoVars>>

(***************************************************************************)
(* The channel is closed: the OnAudioChannelClosed callback                *)
(***************************************************************************)
\* ToggleChatState (and the wake word, the button of StopListening's
\* callers) while Listening: the closure with CloseAudioChannel is scheduled
ToggleChatStateListening ==
    /\ device_state_ = "Listening"
    /\ Len(app_main_tasks) + Len(loop_tasks) < MaxPending
    /\ app_main_tasks' = AppendClosure(app_main_tasks, CloseClosure)
    /\ schedule_event' = TRUE
    /\ UNCHANGED <<loop_pc, loop_tasks, sch_pc, next_closure, exec_log>>
    /\ UNCHANGED <<bgVars, wfcVars, appVars, protoVars, extVars>>

\* MainEventLoop runs the closure with CloseAudioChannel on the websocket
\* transport: websocket_ is deleted and set to nullptr, nothing else
LoopRunWsCloseAudioChannel ==
    /\ loop_pc = "run"
    /\ Head(loop_tasks) = CloseClosure
    /\ protocol_kind = "websocket"
    /\ link' = "none"
    /\ hello_owed' = FALSE
    /\ oac_result' = "none"
    /\ oac_cause' = "none"
    /\ loop_tasks' = Tail(loop_tasks)
    /\ loop_pc' = IF Tail(loop_tasks) = <<>> THEN "wait" ELSE "run"
    /\ UNCHANGED <<app_main_tasks, schedule_event, sch_pc, next_closure, exec_log>>
    /\ UNCHANGED <<protocol_kind, publish_topic_, udp_, session_id_,
                   server_sample_rate_, server_frame_duration_,
                   server_hello_event, error_occurred_, oac_pc, text_sent,
                   hs_hello, hello_in_call>>
    /\ UNCHANGED <<appVars, bgVars, wfcVars, udpVars, extVars>>

\* the closure with CloseAudioChannel, by the transport
LoopRunClose ==
    \/ protocol_kind = "mqtt" /\ LoopRunCloseAudioChannel
    \/ LoopRunWsCloseAudioChannel

\* websocket_'s OnDisconnected callback, on the transport's thread: the
\* OnAudioChannelClosed callback schedules SetDeviceState(Idle)
WsOnDisconnected ==
    /\ protocol_kind = "websocket"
    /\ link = "connected"
    /\ link' = "disconnected"
    /\ hello_owed' = FALSE
    /\ app_main_tasks' = AppendClosure(app_main_tasks, IdleClosure)
    /\ schedule_event' = TRUE
    /\ UNCHANGED <<loop_pc, loop_tasks, sch_pc, next_closure, exec_log>>
    /\ UNCHANGED <<protocol_kind, publish_topic_, udp_, session_id_,
                   server_sample_rate_, server_frame_duration_,
                   server_hello_event, error_occurred_, oac_pc, oac_result,
                   oac_cause, text_sent, hs_hello, hello_in_call>>
    /\ UNCHANGED <<appVars, bgVars, wfcVars, udpVars, extVars>>

(***************************************************************************)
(* Application::CheckNewVersion: a new version is there                    *)
(***************************************************************************)
besideCnvUpgVars == <<timeVars, thrVars, lsnVars, abVars, errVars, jsnVars, actVars, fifoVars>>

\* Alert, the wait of 3 s, SetDeviceState(kDeviceStateUpgrading) with its
\* WaitForCompletion, SetPowerSaveMode(false), wake_word_detect_.StopDetection()
UpgAnnounce ==
    /\ cnv_pc = "upgrade"
    /\ WaitForCompletionReady
    /\ device_state_' = "Upgrading"
    /\ clock_ticks_' = 0
    /\ wake_word_running' = FALSE
    /\ cnv_pc' = "up_audio"
    /\ UNCHANGED <<retry_count, retry_delay, cnv_i, cnv_waited, cnv_calls>>
    /\ UNCHANGED <<listening_mode_, aborted_, output_enabled,
                   decoder_sample_rate, audio_processor_running>>
    /\ UNCHANGED <<ctlVars, aoVars, netVars, audio_decode_queue_, upgVars>>
    /\ UNCHANGED <<bgVars, wfcVars, schedVars, protoVars, besideCnvUpgVars>>

\* codec->EnableInput(false); codec->EnableOutput(false);
UpgDisableAudio ==
    /\ cnv_pc = "up_audio"
    /\ input_enabled' = FALSE
    /\ output_enabled' = FALSE
    /\ upg_log' = Append(upg_log, "audio_off")
    /\ cnv_pc' = "up_clear"
    /\ UNCHANGED <<retry_count, retry_delay, cnv_i, cnv_waited, cnv_calls>>
    /\ UNCHANGED <<aborted_, decoder_sample_rate, audio_processor_running,
                   wake_word_running, background_task_>>
    /\ UNCHANGED <<stateVars, ctlVars, aoVars, netVars, audio_decode_queue_>>
    /\ UNCHANGED <<bgVars, wfcVars, schedVars, protoVars, besideCnvUpgVars>>

\* { lock_guard lock(mutex_); audio_decode_queue_.clear(); }
UpgClearQueue ==
    /\ cnv_pc = "up_clear"
    /\ audio_decode_queue_' = <<>>
    /\ upg_log' = Append(upg_log, "clear")
    /\ cnv_pc' = "up_wait"
    /\ UNCHANGED <<retry_count, retry_delay, cnv_i, cnv_waited, cnv_calls>>
    /\ UNCHANGED <<input_enabled, background_task_>>
    /\ UNCHANGED <<stateVars, codecVars, ctlVars, aoVars, netVars>>
    /\ UNCHANGED <<bgVars, wfcVars, schedVars, protoVars, besideCnvUpgVars>>

\* background_task_->WaitForCompletion() returns
UpgWaitForCompletion ==
    /\ cnv_pc = "up_wait"
    /\ WaitForCompletionReady
    /\ upg_log' = Append(upg_log, "drain")
    /\ cnv_pc' = "up_delete"
    /\ UNCHANGED <<retry_count, retry_delay, cnv_i, cnv_waited, cnv_calls>>
    /\ UNCHANGED <<input_enabled, background_task_>>
    /\ UNCHANGED <<bgVars, wfcVars, schedVars, appVars, protoVars, besideCnvUpgVars>>

\* (mutation of UpgDelete: a new BackgroundTask takes the place of the old)
UpgDelete_Recreate ==
    /\ cnv_pc = "up_delete"
    /\ background_task_' = "object"
    /\ upg_log' = Append(upg_log, "discard")
    /\ cnv_pc' = "up_transfer"
    /\ UNCHANGED <<retry_count, retry_delay, cnv_i, cnv_waited, cnv_calls>>
    /\ UNCHANGED input_enabled
    /\ UNCHANGED <<bgVars, wfcVars, schedVars, appVars, protoVars, besideCnvUpgVars>>

\* delete background_task_; background_task_ = nullptr; and the wait of 1 s
UpgDelete ==
    /\ cnv_pc = "up_delete"
    /\ background_task_' = "null"
    /\ upg_log' = Append(upg_log, "discard")
    /\ cnv_pc' = "up_transfer"
    /\ UNCHANGED <<retry_count, retry_delay, cnv_i, cnv_waited, cnv_calls>>
    /\ UNCHANGED input_enabled
    /\ UNCHANGED <<bgVars, wfcVars, schedVars, appVars, protoVars, besideCnvUpgVars>>

\* ota_.StartUpgrade(...) is called
UpgStartUpgrade ==
    /\ cnv_pc = "up_transfer"
    /\ upg_log' = Append(upg_log, "transfer")
    /\ cnv_pc' = "transferring"
    /\ UNCHANGED <<retry_count, retry_delay, cnv_i, cnv_waited, cnv_calls>>
    /\ UNCHANGED <<input_enabled, background_task_>>
    /\ UNCHANGED <<bgVars, wfcVars, schedVars, appVars, protoVars, besideCnvUpgVars>>

(***************************************************************************)
(* Application::CheckNewVersion: the activation                            *)
(***************************************************************************)
besideCnvActVars == <<timeVars, thrVars, lsnVars, abVars, errVars, jsnVars, upgVars, fifoVars>>

\* attempts of one round: for (int i = 0; i < 10; ++i)
ACTIVATE_ATTEMPTS == 10

\* what ota_.Activate() returns
ActivateResults == {"ESP_OK", "ESP_ERR_TIMEOUT", "ESP_FAIL"}

\* (mutation of ActivateWait: the two waits exchanged)
ActivateWait_Exchanged(err) == IF err = "ESP_ERR_TIMEOUT" THEN 10 ELSE 3

\* the wait after a failed attempt, in seconds
ActivateWait(err) == IF err = "ESP_ERR_TIMEOUT" THEN 3 ELSE 10

\* ota_.CheckVersion() succeeds, there is no new version and the server asks
\* for the activation: MarkCurrentVersionValid, the status line, the code is
\* shown, and the for loop begins
ActBegin ==
    /\ cnv_pc = "check"
    /\ retry_count' = 0
    /\ retry_delay' = 10
    /\ cnv_calls' = 0
    /\ cnv_waited' = 0
    /\ cnv_i' = 0
    /\ act_calls' = 0
    /\ act_err' = "none"
    /\ cnv_pc' = "act"
    /\ UNCHANGED <<check_done, device_state_>>
    /\ UNCHANGED <<bgVars, wfcVars, schedVars, appRestVars, protoVars, besideCnvActVars>>

\* one attempt: ota_.Activate() returns err; ESP_OK sets the event bit and
\* leaves the for loop, any other result begins its wait
ActAttempt(err) ==
    /\ cnv_pc = "act"
    /\ act_calls' = act_calls + 1
    /\ act_err' = err
    /\ IF err = "ESP_OK"
       THEN /\ check_done' = TRUE
            /\ cnv_waited' = 0
            /\ cnv_pc' = "top"
       ELSE /\ cnv_waited' = ActivateWait(err)
            /\ cnv_pc' = "act_wait"
            /\ UNCHANGED check_done
    /\ UNCHANGED <<retry_count, retry_delay, cnv_i, cnv_calls, device_state_>>
    /\ UNCHANGED <<bgVars, wfcVars, schedVars, appRestVars, protoVars, besideCnvActVars>>

\* the wait is over: break when device_state_ is Idle, else ++i and the test
\* of the for loop
ActAfterWait ==
    /\ cnv_pc = "act_wait"
    /\ IF device_state_ = "Idle" \/ cnv_i + 1 >= ACTIVATE_ATTEMPTS
       THEN /\ cnv_pc' = "top"
            /\ UNCHANGED cnv_i
       ELSE /\ cnv_i' = cnv_i + 1
            /\ cnv_pc' = "act"
    /\ UNCHANGED <<retry_count, retry_delay, cnv_waited, cnv_calls, device_state_>>
    /\ UNCHANGED actVars
    /\ UNCHANGED <<bgVars, wfcVars, schedVars, appRestVars, protoVars, besideCnvActVars>>

(***************************************************************************)
(* Application::PlaySound with an asset of several records                 *)
(***************************************************************************)
\* records of the longest asset played here
MaxCueRecords == 2

\* PlaySound(sound) is called with an asset of n records
PlaySoundCue(n) ==
    /\ ctl_pc = "idle"
    /\ ctl_cue' = CuePackets(1, n)
    /\ ctl_pc' = "ps_wait"
    /\ UNCHANGED <<ctl_target, ctl_barrier, ctl_sent>>
    /\ UNCHANGED <<stateVars, codecVars, aoVars, netVars, audio_decode_queue_>>
    /\ UNCHANGED <<bgVars, wfcVars, schedVars, protoVars, extVars>>

(***************************************************************************)
(* The decode queue with its history                                       *)
(***************************************************************************)
\* packets appended to the queue in one run
MaxEnqueued == 4

\* the OnIncomingAudio callback; the packet is logged when it is appended
FifoOnIncomingAudio ==
    /\ OnIncomingAudioBody
    /\ enq_log' = IF Len(audio_decode_queue_) < MaxPacketsInQueue
                  THEN Append(enq_log, net_pkt) ELSE enq_log
    /\ UNCHANGED dec_log
    /\ UNCHANGED notFifoVars

\* PlaySound appends a record of its asset
FifoPlaySoundEnqueue ==
    /\ PlaySoundEnqueueBody
    /\ enq_log' = Append(enq_log, Head(ctl_cue))
    /\ UNCHANGED dec_log
    /\ UNCHANGED notFifoVars

\* the decode unit of OnAudioOutput; opus_decoder_->Decode returns decoded
FifoDecodeUnitRun(decoded) ==
    /\ BgWorkerRunDecodeBody
    /\ LET out == DecodeOutput(aborted_, decoded, Head(bg_tasks).pkt)
       IN  dec_log' = IF out \in {Skipped, NoPacket} THEN dec_log
                      ELSE Append(dec_log, out)
    /\ UNCHANGED enq_log
    /\ UNCHANGED <<wfcVars, schedVars, protoVars, notFifoVars>>

(***************************************************************************)
(* The OnAudioChannelOpened callback and the rate of the decoder           *)
(***************************************************************************)
\* MqttProtocol::OpenAudioChannel ends its wait; when it returns true it has
\* called on_audio_channel_opened_, whose callback of Application calls
\* SetDecodeSampleRate(server_sample_rate(), server_frame_duration())
OpenAudioChannelOpened ==
    /\ MqttOpenAudioChannelWaitBody
    /\ decoder_sample_rate' = IF server_hello_event THEN server_sample_rate_
                              ELSE decoder_sample_rate
    /\ UNCHANGED <<aborted_, output_enabled, audio_processor_running,
                   wake_word_running>>
    /\ UNCHANGED <<stateVars, ctlVars, aoVars, netVars, audio_decode_queue_>>
    /\ UNCHANGED <<bgVars, wfcVars, schedVars, udpVars, extVars>>

(***************************************************************************)
(* The playback loop beside the deletion of the work queue                 *)
(***************************************************************************)
\* OnAudioOutput calls background_task_->Schedule after CheckNewVersion has
\* deleted the BackgroundTask: the call works on a null or freed object, the
\* loop either faults there or goes on with a unit that no worker runs
AudioOutputScheduleDeleted ==
    /\ ao_pc = "schedule"
    /\ background_task_ = "null"
    /\ busy_decoding_audio_' = TRUE
    /\ ao_opus' = NoPacket
    /\ ao_pc' \in {"fault", "idle"}
    /\ UNCHANGED <<stateVars, codecVars, ctlVars, netVars, audio_decode_queue_>>
    /\ UNCHANGED <<bgVars, wfcVars, schedVars, protoVars, extVars>>

(***************************************************************************)
(* Application::Start after CheckNewVersion                                *)
(***************************************************************************)
\* ota_.CheckVersion() succeeds, there is no new version and the server asks
\* for no activation: MarkCurrentVersionValid, the event bit is set, break
CnvNoActivation ==
    /\ cnv_pc = "check"
    /\ retry_count' = 0
    /\ retry_delay' = 10
    /\ cnv_calls' = 0
    /\ cnv_waited' = 0
    /\ check_done' = TRUE
    /\ cnv_pc' = "done"
    /\ UNCHANGED <<cnv_i, act_err, act_calls, device_state_>>
    /\ UNCHANGED <<bgVars, wfcVars, schedVars, appRestVars, protoVars, besideCnvActVars>>

\* CheckNewVersion has returned: xEventGroupWaitBits(event_group_,
\* CHECK_NEW_VERSION_DONE_EVENT, pdTRUE, pdFALSE, portMAX_DELAY) returns when
\* the bit is set, and clears it
StartWaitCheckDone ==
    /\ cnv_pc \in {"done", "returned"}
    /\ check_done
    /\ check_done' = FALSE
    /\ cnv_pc' = "start_idle"
    /\ UNCHANGED <<retry_count, retry_delay, cnv_i, cnv_waited, cnv_calls,
                   act_err, act_calls>>
    /\ UNCHANGED <<bgVars, wfcVars, schedVars, appVars, protoVars, besideCnvActVars>>

\* Start calls SetDeviceState(kDeviceStateIdle)
StartSetIdle ==
    /\ cnv_pc = "start_idle"
    /\ SdsBeginBody("Idle")
    /\ cnv_pc' = "start_tail"
    /\ UNCHANGED <<retry_count, retry_delay, cnv_i, cnv_waited, cnv_calls>>
    /\ UNCHANGED <<bgVars, wfcVars, schedVars, protoVars, notCnvVars>>

\* SetDeviceState has returned: the notification, ResetDecoder(),
\* PlaySound(P3_SUCCESS) at 16 kHz, and MainEventLoop() is entered
StartEnterLoop ==
    /\ cnv_pc = "start_tail"
    /\ ctl_pc = "idle"
    /\ WaitForCompletionReady
    /\ output_enabled' = TRUE
    /\ decoder_sample_rate' = 16000
    /\ audio_decode_queue_' = CuePackets(1, 1)
    /\ cnv_pc' = "loop"
    /\ UNCHANGED <<retry_count, retry_delay, cnv_i, cnv_waited, cnv_calls>>
    /\ UNCHANGED <<aborted_, audio_processor_running, wake_word_running>>
    /\ UNCHANGED <<stateVars, ctlVars, aoVars, netVars>>
    /\ UNCHANGED <<bgVars, wfcVars, schedVars, protoVars, notCnvVars>>

(***************************************************************************)
(* The closure of ToggleChatState in Idle                                  *)
(***************************************************************************)
\* The closure scheduled by ToggleChatState in Idle runs:
\* SetDeviceState(kDeviceStateConnecting), whose entry actions are empty,
\* then protocol_->OpenAudioChannel() up to the hello message
ConnectClosureBegin ==
    /\ device_state_ = "Idle"
    /\ ctl_pc = "idle"
    /\ WaitForCompletionReady
    /\ device_state_' = "Connecting"
    /\ clock_ticks_' = 0
    /\ \E ok \in BOOLEAN :
          IF protocol_kind = "mqtt"
          THEN /\ MqttOpenAudioChannelBeginBody(ok)
               /\ ctl_pc' = IF link # "connected" /\ ~ok THEN "net_err" ELSE "idle"
          ELSE /\ WsOpenAudioChannelBeginBody(ok)
               /\ ctl_pc' = IF ~ok THEN "net_err" ELSE "idle"
    /\ UNCHANGED <<ctl_target, ctl_cue, ctl_barrier, ctl_sent>>
    /\ UNCHANGED <<listening_mode_, codecVars, aoVars, netVars, audio_decode_queue_>>
    /\ UNCHANGED last_send
    /\ UNCHANGED <<bgVars, wfcVars, schedVars, udpVars, notErrVars>>

\* OpenAudioChannel has returned true: SetListeningMode(...) calls
\* SetDeviceState(kDeviceStateListening)
ConnectClosureListen ==
    /\ device_state_ = "Connecting"
    /\ oac_pc = "idle"
    /\ oac_result = "true"
    /\ SdsBegin("Listening")

(***************************************************************************)
(* The closures of the tts messages, branch by branch                      *)
(***************************************************************************)
\* the closure of a tts stop message in Speaking when the mode is
\* ManualStop: after WaitForCompletion, SetDeviceState(kDeviceStateIdle)
TtsStopManual ==
    /\ WaitForCompletionReady
    /\ device_state_ = "Speaking"
    /\ listening_mode_ = "ManualStop"
    /\ ctl_pc = "idle"
    /\ SdsBegin("Idle")

\* the closure of a tts stop message in Speaking when the mode is not
\* ManualStop: after WaitForCompletion, aborted_ = false, ResetDecoder(),
\* PlaySound(P3_SUCCESS) up to its first wait; SetDeviceState(Listening) is
\* still to come
TtsStopCue ==
    /\ ctl_pc = "idle"
    /\ WaitForCompletionReady
    /\ device_state_ = "Speaking"
    /\ listening_mode_ # "ManualStop"
    /\ aborted_' = FALSE
    /\ audio_decode_queue_' = <<>>
    /\ output_enabled' = TRUE
    /\ ctl_cue' = CuePackets(1, 1)
    /\ ctl_pc' = "ps_wait"
    /\ ctl_target' = "Listening"
    /\ UNCHANGED abVars
    /\ UNCHANGED <<decoder_sample_rate, audio_processor_running, wake_word_running>>
    /\ UNCHANGED <<ctl_barrier, ctl_sent>>
    /\ UNCHANGED <<stateVars, aoVars, netVars>>
    /\ UNCHANGED <<bgVars, wfcVars, schedVars, protoVars, notAbVars>>

\* the same closure after PlaySound and the wait of 300 ms:
\* SetDeviceState(kDeviceStateListening)
TtsStopListen ==
    /\ ctl_pc = "idle"
    /\ ctl_target = "Listening"
    /\ SdsBegin("Listening")

(***************************************************************************)
(* Application::StopListening                                              *)
(***************************************************************************)
\* [this]() { if (device_state_ == kDeviceStateListening) {
\*     protocol_->SendStopListening(); SetDeviceState(kDeviceStateIdle); } }
StopClosure ==
    OpsClosure(<<OpStep("SendStopListening", "none", {"Listening"}),
                 OpStep("SetDeviceState", "Idle", {"Listening"})>>)

\* the closure of ToggleChatState in Idle: SetDeviceState(Connecting),
\* OpenAudioChannel, SetListeningMode
ListenClosure ==
    OpsClosure(<<OpStep("SetDeviceState", "Connecting", DeviceStates),
                 OpStep("OpenAudioChannel", "none", DeviceStates),
                 OpStep("SetListeningMode", "none", DeviceStates)>>)

\* StopListening, on the thread of the button: return when device_state_ is
\* not Listening, Speaking or Idle, else the closure is scheduled
StopListening ==
    /\ Len(app_main_tasks) + Len(loop_tasks) < MaxPending
    /\ IF device_state_ \in {"Listening", "Speaking", "Idle"}
       THEN /\ app_main_tasks' = AppendClosure(app_main_tasks, StopClosure)
            /\ schedule_event' = TRUE
       ELSE UNCHANGED <<app_main_tasks, schedule_event>>
    /\ UNCHANGED <<loop_pc, loop_tasks, sch_pc, next_closure, exec_log>>
    /\ UNCHANGED <<bgVars, wfcVars, appVars, protoVars, extVars>>

\* (mutation of LoopRunStopListening: the closure does not test device_state_)
LoopRunStopListening_NoTest ==
    /\ loop_pc = "run"
    /\ Head(loop_tasks) = StopClosure
    /\ \E ok \in BOOLEAN :
          /\ SendControlBody("listen_stop", ok)
          /\ SendTextReturns(ok)
    /\ device_state_' = "Idle"
    /\ loop_tasks' = Tail(loop_tasks)
    /\ loop_pc' = IF Tail(loop_tasks) = <<>> THEN "wait" ELSE "run"
    /\ UNCHANGED <<app_main_tasks, schedule_event, sch_pc, next_closure, exec_log>>
    /\ UNCHANGED <<appRestVars, bgVars, wfcVars, udpVars, notErrVars>>

\* MainEventLoop runs the closure of StopListening: in Listening the message
\* is given to SendText (a send the link refuses calls SetError and the
\* network-error callback, which sets Idle as well) and
\* SetDeviceState(kDeviceStateIdle) follows; in any other state nothing
LoopRunStopListening ==
    /\ loop_pc = "run"
    /\ Head(loop_tasks) = StopClosure
    /\ IF device_state_ = "Listening"
       THEN /\ \E ok \in BOOLEAN :
                  /\ SendControlBody("listen_stop", ok)
                  /\ SendTextReturns(ok)
            /\ device_state_' = "Idle"
       ELSE UNCHANGED <<hsVars, last_send, device_state_>>
    /\ loop_tasks' = Tail(loop_tasks)
    /\ loop_pc' = IF Tail(loop_tasks) = <<>> THEN "wait" ELSE "run"
    /\ UNCHANGED <<app_main_tasks, schedule_event, sch_pc, next_closure, exec_log>>
    /\ UNCHANGED <<appRestVars, bgVars, wfcVars, udpVars, notErrVars>>

\* ToggleChatState in Idle, on the thread of the button: the closure that
\* opens the channel is scheduled
ToggleChatStateIdle ==
    /\ device_state_ = "Idle"
    /\ Len(app_main_tasks) + Len(loop_tasks) < MaxPending
    /\ app_main_tasks' = AppendClosure(app_main_tasks, ListenClosure)
    /\ schedule_event' = TRUE
    /\ UNCHANGED <<loop_pc, loop_tasks, sch_pc, next_closure, exec_log>>
    /\ UNCHANGED <<bgVars, wfcVars, appVars, protoVars, extVars>>

\* MainEventLoop runs that closure: SetDeviceState(kDeviceStateConnecting),
\* and OpenAudioChannel is under way
LoopRunOpenBegin ==
    /\ loop_pc = "run"
    /\ Head(loop_tasks) = ListenClosure
    /\ device_state_' = "Connecting"
    /\ loop_pc' = "opening"
    /\ UNCHANGED <<app_main_tasks, schedule_event, loop_tasks, sch_pc,
                   next_closure, exec_log>>
    /\ UNCHANGED <<appRestVars, bgVars, wfcVars, protoVars, extVars>>

\* OpenAudioChannel has returned true on the channel that was open:
\* SetListeningMode sets Listening, and the closure is over
LoopRunOpenEnd ==
    /\ loop_pc = "opening"
    /\ device_state_' = "Listening"
    /\ loop_tasks' = Tail(loop_tasks)
    /\ loop_pc' = IF Tail(loop_tasks) = <<>> THEN "wait" ELSE "run"
    /\ UNCHANGED <<app_main_tasks, schedule_event, sch_pc, next_closure, exec_log>>
    /\ UNCHANGED <<appRestVars, bgVars, wfcVars, protoVars, extVars>>

(***************************************************************************)
(* Specifications                                                          *)
(***************************************************************************)
\* last_incoming_time_ is default-constructed: the epoch of the steady clock
TimeInit ==
    /\ now = 0
    /\ last_incoming_time_ = 0

\* the threads: the main task (Application::Start, then MainEventLoop), the
\* transport's callback thread, the thread of the button callbacks, the task
\* of UartListenTask and the clock timer
Threads == {"main", "transport", "button", "uart", "timer"}

ThrInit ==
    /\ thr_todo = [t \in Threads |-> <<>>]
    /\ thr_op = [t \in Threads |-> "none"]

LsnInit ==
    /\ ctl_prev = "Unknown"
    /\ decoder_stale = "no"

\* CheckNewVersion has not been called
CnvInit ==
    /\ cnv_pc = "start"
    /\ retry_count = 0
    /\ retry_delay = 10
    /\ cnv_i = 0
    /\ cnv_waited = 0
    /\ cnv_calls = 0

AbInit ==
    /\ played = NoPacket
    /\ abort_msg = NoAbortMessage
    /\ abort_open = FALSE

\* no SendText was called
ErrInit == last_send = NoSend

JsnInit ==
    /\ invalid_access = "none"
    /\ halted = FALSE

UpgInit ==
/\ input_enabled = TRUE
/\ background_task_ = "object"
/\ upg_log = <<>>

ActInit ==
/\ check_done = FALSE
/\ act_err = "none"
/\ act_calls = 0

FifoInit ==
/\ enq_log = <<>>
/\ dec_log = <<>>

ExtInit == TimeInit /\ ThrInit /\ LsnInit /\ CnvInit /\ AbInit /\ ErrInit /\ JsnInit /\ UpgInit /\ ActInit /\ FifoInit

CoreInit == BgInit /\ WfcInit /\ SchedInit /\ AppInit /\ ExtInit

\* One transport, one key: the state every specification starts from unless
\* it says otherwise.
ProtoInit ==
    /\ UdpInit({CHOOSE k \in AesKeys : TRUE}, {Uint32(0)})
    /\ HsInit({"mqtt"}, {"topic"}, "null")

AllInit == CoreInit /\ ProtoInit

\* The work queue alone: threads that submit units, units that submit one
\* more unit, the worker and one waiter.
InitBG == AllInit

NextBG ==
    \/ BgScheduleExt
    \/ BgWorkerTake
    \/ BgWorkerRunWork
    \/ BgWorkerFinish
    \/ WfcCall
    \/ WfcReturn
    \/ WfcDone

SpecBG == InitBG /\ [][NextBG]_vars

\* Application::Schedule called by two threads and by running closures, and
\* MainEventLoop.
InitSched == AllInit

NextSched ==
    \/ \E t \in SchedThreads : ScheduleAppend(t)
    \/ \E t \in SchedThreads : ScheduleSetBits(t)
    \/ LoopWake
    \/ LoopSwap
    \/ LoopRun

SpecSched == InitSched /\ [][NextSched]_vars

\* The device state machine: a thread that calls SetDeviceState for every
\* state and SetListeningMode, the clock timer, and the decode pipeline
\* (transport callback, playback loop, work queue) that the barrier waits for.
InitState == AllInit

NextState ==
    \/ \E S \in DeviceStates : SdsBegin(S)
    \/ SdsBarrier
    \/ SdsEntry
    \/ SdsReturn
    \/ \E m \in ListeningModes : SetListeningMode(m)
    \/ OnClockTimer
    \/ NetReceive(1)
    \/ OnIncomingAudio
    \/ AudioOutputSilence
    \/ AudioOutputDiscard
    \/ AudioOutputTake
    \/ AudioOutputSchedule
    \/ BgWorkerTake
    \/ BgWorkerRunDecode
    \/ BgWorkerFinish

SpecState == InitState /\ [][NextState]_vars

\* The decode queue: inbound-audio callbacks, PlaySound,
\* Alert and ResetDecoder calls, state changes between the states whose
\* entry actions or playback differ, the playback loop and the work queue.
QueueStates == {"Idle", "Listening", "Speaking"}

InitQueue == AllInit

NextQueue ==
    \/ \E S \in QueueStates : SdsBegin(S)
    \/ SdsBarrier
    \/ SdsEntry
    \/ SdsReturn
    \/ PlaySoundCall
    \/ ResetDecoder
    \/ Alert
    \/ PlaySoundQueueEmpty
    \/ PlaySoundBarrier
    \/ PlaySoundEnqueue
    \/ NetReceive(2)
    \/ OnIncomingAudio
    \/ AudioOutputSilence
    \/ AudioOutputDiscard
    \/ AudioOutputTake
    \/ AudioOutputSchedule
    \/ BgWorkerTake
    \/ BgWorkerRunDecode
    \/ BgWorkerFinish

SpecQueue == InitQueue /\ [][NextQueue]_vars

\* The datagram path of an open channel: the capture side sends, the peer's
\* datagrams (and the device's own, echoed) arrive.
InitUdp ==
    /\ CoreInit
    /\ UdpInit(AesKeys, StartSequences)
    /\ HsInit({"mqtt"}, {"topic"}, "open")

NextUdp ==
    \/ \E data \in Payloads : SendAudio(data)
    \/ UdpReceive
    \/ UdpOnMessage

SpecUdp == InitUdp /\ [][NextUdp]_vars

\* The handshake and the session of either transport: the control loop
\* opens and closes the channel and sends control messages, the peer's
\* hellos arrive whenever the link is up.
InitHs ==
    /\ CoreInit
    /\ UdpInit({CHOOSE k \in AesKeys : TRUE}, {Uint32(0)})
    /\ HsInit(ProtocolKinds, {"", "topic"}, "null")

NextHs ==
    \/ MqttOpenAudioChannelBegin
    \/ WsOpenAudioChannelBegin
    \/ MqttOpenAudioChannelSendHello
    \/ WsOpenAudioChannelSendHello
    \/ MqttOpenAudioChannelWait
    \/ WsOpenAudioChannelWait
    \/ \E h \in Hellos : MqttParseServerHello(h)
    \/ \E h \in Hellos : WsParseServerHello(h)
    \/ \E type \in ControlTypes : SendControl(type)
    \/ MqttCloseAudioChannel
    \/ WsCloseAudioChannel
    \/ LinkDisconnected

SpecHs == InitHs /\ [][NextHs]_vars

\* The hello the open channel of SpecTimeout was negotiated with.
OpenHello ==
    [transport |-> IF protocol_kind = "mqtt" THEN "udp" ELSE "websocket",
     session_id |-> "s1", sample_rate |-> 16000, frame_duration |-> 60,
     udp |-> TRUE]

\* An open channel of either transport, as OpenAudioChannel leaves it when
\* it returns true: the hello of the peer has just been taken in.
InitTimeout ==
    /\ CoreInit
    /\ UdpInit({CHOOSE k \in AesKeys : TRUE}, {Uint32(0)})
    /\ protocol_kind \in ProtocolKinds
    /\ publish_topic_ = "topic"
    /\ link = "connected"
    /\ udp_ = IF protocol_kind = "mqtt" THEN "open" ELSE "null"
    /\ session_id_ = IF protocol_kind = "mqtt" THEN "s1" ELSE ""
    /\ server_sample_rate_ = 16000
    /\ server_frame_duration_ = 60
    /\ server_hello_event = FALSE
    /\ error_occurred_ = FALSE
    /\ oac_pc = "idle"
    /\ oac_result = "true"
    /\ oac_cause = "none"
    /\ text_sent = [type |-> "hello", session_id |-> "absent", n |-> 1]
    /\ hello_owed = FALSE
    /\ hs_hello = OpenHello
    /\ hello_in_call = TRUE

\* The datagrams of the peer in SpecTimeout: sequence 1 and 2.
TimeoutPackets ==
    {ServerPacket(CHOOSE k \in AesKeys : TRUE, AudioPacketType, s, PayloadOf(8)) :
        s \in 1..2}

\* An open channel over time: inbound control messages, datagrams and
\* frames, control messages of the device (whose send may fail), the loss
\* of the link.
NextTimeout ==
    \/ \E d \in TickSteps : Tick(d)
    \/ \E m \in JsonKinds : MqttOnJson(m)
    \/ \E binary \in BOOLEAN : WsOnData(binary)
    \/ \E data \in TimeoutPackets : UdpReceivePacket(data)
    \/ UdpOnMessage
    \/ SendControl("abort")
    \/ LinkDisconnected

SpecTimeout == InitTimeout /\ [][NextTimeout]_vars

(***************************************************************************)
(* Properties                                                              *)
(***************************************************************************)

\* C1: at the step at which WaitForCompletion returns, no submitted unit is
\* pending in main_tasks_, held in the worker's local list or executing:
\* every unit submitted so far has finished its callback.
C1_BarrierReturnsDrained ==
    [][(wfc_pc = "waiting" /\ wfc_pc' = "returned")
        => (bg_outstanding = 0 /\ bg_main_tasks = <<>> /\ bg_tasks = <<>>)]_vars

\* C1 witness: the barrier has returned after units, one of them submitted
\* from inside a running unit, were submitted and run.
C1_Witness ==
    wfc_pc = "returned" /\ bg_runs >= 2 /\ bg_nested /\ bg_outstanding = 0

\* C2: closures are executed in the order of their appends (the log of
\* executions is 1, 2, 3, ...), and every closure still in main_tasks_ was
\* appended after every closure of the batch being executed, so it runs only
\* after that batch.
C2_FifoBatches ==
    /\ \A i \in DOMAIN exec_log : exec_log[i] = i
    /\ \A i \in DOMAIN loop_tasks : \A j \in DOMAIN app_main_tasks :
           loop_tasks[i].id < app_main_tasks[j].id

\* C2 witness: a batch is being executed, one closure of it has run, and a
\* closure scheduled meanwhile waits in main_tasks_ for the next batch.
C2_Witness ==
    /\ loop_pc = "run"
    /\ Len(exec_log) >= 1
    /\ Len(loop_tasks) >= 1
    /\ app_main_tasks # <<>>

\* the step at which SetDeviceState is called
SdsCallStep ==
    ctl_pc \in {"idle", "slm"} /\ ctl_pc' \in {"sds_wait", "sds_entry", "sds_ret"}

\* C3: SetDeviceState(S) called in state S returns at once and changes
\* nothing: no variable of the application, no unit of the work queue, no
\* control message, no entry action.  A call in another state leaves the
\* device in S with the entry actions of S run once, so that the next
\* SetDeviceState(S) is such a call without effect.
C3_SameStateNoOp ==
    [][ /\ (SdsCallStep /\ ctl_target' = device_state_)
            => /\ ctl_pc' = "sds_ret"
               /\ ctl_sent' = {}
               /\ UNCHANGED <<stateVars, codecVars, aoVars, netVars,
                              audio_decode_queue_, ctl_cue, bgVars>>
        /\ (SdsCallStep /\ ctl_target' # device_state_)
            => (ctl_pc' = "sds_wait" /\ device_state_' = ctl_target')
        /\ (ctl_pc = "sds_entry" /\ ctl_pc' # "sds_entry") => ctl_pc' = "sds_ret"
        /\ (ctl_pc # "sds_ret" /\ ctl_pc' = "sds_ret") => device_state_' = ctl_target'
      ]_vars

\* C3 witness: SetDeviceState(Listening) has returned at once (no barrier in
\* this call) in the state Listening, whose entry actions ran before.
C3_Witness ==
    /\ ctl_pc = "sds_ret"
    /\ ~ctl_barrier
    /\ ctl_target = "Listening"
    /\ device_state_ = "Listening"
    /\ audio_processor_running

\* C4: the entry actions of a state run only after device_state_ was set to
\* that state and WaitForCompletion has then returned in the same call, and
\* WaitForCompletion returns only with an empty list and no unit in flight.
C4_EntryAfterBarrier ==
    [][ /\ (ctl_pc = "sds_entry" /\ ctl_pc' # "sds_entry")
            => (ctl_barrier /\ device_state_ = ctl_target)
        /\ (~ctl_barrier /\ ctl_barrier')
            => /\ device_state_ = ctl_target
               /\ bg_main_tasks = <<>>
               /\ bg_active_tasks = 0
               /\ bg_outstanding = 0
      ]_vars

\* C4 witness: the entry actions of Speaking have run, after the barrier,
\* while the playback loop holds a packet it has taken from the queue.
C4_Witness ==
    /\ ctl_pc = "sds_ret"
    /\ ctl_barrier
    /\ ctl_target = "Speaking"
    /\ device_state_ = "Speaking"
    /\ ao_pc # "idle"

\* the packets of the queue that the inbound-audio callback has appended
NetPacketsIn(q) == {i \in DOMAIN q : q[i].src = "net"}

\* C5 as stated: the decode queue never holds more than 5 packets.
C5_QueueAtMostFive ==
    Len(audio_decode_queue_) <= MaxPacketsInQueue

\* C5 amended: the decode queue never holds more than 5 packets appended by
\* the inbound-audio callback (PlaySound appends the packets of a cue without
\* a limit).
C5_NetPacketsAtMostFive ==
    Cardinality(NetPacketsIn(audio_decode_queue_)) <= MaxPacketsInQueue

\* C5 witness: the queue holds 5 packets of the transport and a packet of a
\* cue behind them.
C5_Witness ==
    /\ Cardinality(NetPacketsIn(audio_decode_queue_)) = MaxPacketsInQueue
    /\ Len(audio_decode_queue_) > MaxPacketsInQueue

\* C6: an inbound-audio callback that finds 5 packets or more leaves the
\* queue as it is, and one that finds fewer appends its packet at the tail.
C6_DropWhenFull ==
    [][(net_pc = "callback" /\ net_pc' = "idle")
        => IF Len(audio_decode_queue_) >= MaxPacketsInQueue
           THEN audio_decode_queue_' = audio_decode_queue_
           ELSE audio_decode_queue_' = Append(audio_decode_queue_, net_pkt)]_vars

\* C6 witness: 5 packets of the transport are queued and the packet delivered
\* after the fifth of them (its number is the one before net_seq) is not in
\* the queue.
C6_Witness ==
    /\ net_pc = "idle"
    /\ Len(audio_decode_queue_) = MaxPacketsInQueue
    /\ NetPacketsIn(audio_decode_queue_) = DOMAIN audio_decode_queue_
    /\ audio_decode_queue_[MaxPacketsInQueue].id = net_seq

\* C7: an inbound datagram whose sequence is <= remote_sequence_ is not
\* delivered and leaves remote_sequence_ unchanged; a well-formed one with a
\* greater sequence is delivered and becomes remote_sequence_; hence
\* remote_sequence_ never decreases.
C7_StaleOrEqualRejected ==
    [][(udp_pc = "callback" /\ udp_pc' = "idle")
        => /\ ~Uint32Less(remote_sequence_', remote_sequence_)
           /\ IF Len(udp_pkt) >= AesBlockSize
                 /\ ~Uint32Less(remote_sequence_, PacketSequence(udp_pkt))
              THEN ~udp_delivered'.ok /\ remote_sequence_' = remote_sequence_
              ELSE PacketWellFormed(udp_pkt)
                   => /\ udp_delivered'.ok
                      /\ remote_sequence_' = PacketSequence(udp_pkt)]_vars

\* C8: decrypting the last datagram sent, with the nonce it carries and the
\* same key, gives back the payload passed to SendAudio, and the nonce it
\* carries is the one built for that payload and sequence; a datagram that
\* comes back through the receive handler is delivered as that payload.
C8_RoundTrip ==
    udp_sends > 0
    => /\ DecryptPacket(aes_key, udp_sent) = udp_sent_data
       /\ SubSeq(udp_sent, 1, AesBlockSize)
            = PacketNonce(aes_nonce_, Len(udp_sent_data), local_sequence_)
       /\ (udp_pc = "idle" /\ udp_delivered.ok /\ udp_pkt = udp_sent)
            => udp_delivered.payload = udp_sent_data

C8_Witness ==
    /\ udp_sends > 0
    /\ Len(udp_sent_data) > 2 * AesBlockSize
    /\ local_sequence_ = Uint32(256)
    /\ udp_pc = "idle"
    /\ udp_pkt = udp_sent
    /\ udp_delivered.ok
    /\ udp_delivered.payload = udp_sent_data

\* C9: once OpenAudioChannel has returned true on a hello that carries a
\* session id and audio_params 16000 / 60, the server sample rate and frame
\* duration are 16000 and 60 and every control message sent on the channel
\* (goodbye included) carries that hello's session id, on both transports.
C9_SessionIdOnControlMessages ==
    [][(/\ oac_result = "true"
        /\ hs_hello.session_id # "absent"
        /\ hs_hello.sample_rate = 16000
        /\ hs_hello.frame_duration = 60
        /\ text_sent' # text_sent
        /\ text_sent'.type \in ControlTypes \cup {"goodbye"})
        => /\ text_sent'.session_id = hs_hello.session_id
           /\ server_sample_rate_ = 16000
           /\ server_frame_duration_ = 60]_vars

\* C10: OpenAudioChannel returns true only if a hello was received during
\* that call, and returns false on a connect failure, a failed send of the
\* hello and the expiry of the wait; a hello that arrived after an earlier
\* attempt timed out does not make a later attempt return true.
C10_TrueOnlyOnFreshHello ==
    /\ oac_result = "true" => hello_in_call
    /\ oac_cause # "none" => oac_result = "false"

\* The threads of the firmware: the main task starts the application and
\* runs the control loop; the transport, the button, the UART listener and
\* the clock timer call their handlers at any time.
InitThreads ==
    /\ BgInit /\ WfcInit /\ AppInit /\ TimeInit /\ ProtoInit
    /\ LsnInit /\ CnvInit /\ AbInit /\ ErrInit /\ JsnInit /\ UpgInit /\ ActInit /\ FifoInit
    /\ app_main_tasks = <<>>
    /\ schedule_event = FALSE
    /\ loop_pc = "start"
    /\ loop_tasks = <<>>
    /\ sch_pc = [t \in SchedThreads |-> "idle"]
    /\ next_closure = 1
    /\ exec_log = <<>>
    /\ thr_todo = [t \in Threads |-> IF t = "main" THEN StartSteps ELSE <<>>]
    /\ thr_op = [t \in Threads |-> "none"]

NextThreads ==
    \/ \E t \in Threads : HandlerCall(t)
    \/ \E t \in Threads : ThreadSkip(t)
    \/ \E t \in Threads : ThreadBeginOp(t)
    \/ \E t \in Threads : ThreadEndOp(t)
    \/ \E t \in Threads : ThreadSchedule(t)
    \/ MainEventLoopCall
    \/ LoopWake
    \/ LoopSwap
    \/ LoopTaskBegin
    \/ LoopTaskEnd

SpecThreads == InitThreads /\ [][NextThreads]_vars

\* the channel exists: the datagram socket, or the connected websocket
ChannelUp ==
    IF protocol_kind = "mqtt" THEN udp_ # "null" ELSE link = "connected"

\* a step of one of the inbound handlers
InboundHandled ==
    \/ udp_pc = "callback" /\ udp_pc' = "idle"
    \/ \E m \in JsonKinds : MqttOnJson(m)
    \/ \E binary \in BOOLEAN : WsOnData(binary)

\* a step of an inbound handler that runs to the handler's end
InboundTakenIn ==
    \/ udp_pc = "callback" /\ udp_pc' = "idle" /\ udp_delivered'.ok
    \/ MqttOnJson("json")
    \/ \E binary \in BOOLEAN : WsOnData(binary)

ThreadsInside == {t \in Threads : thr_op[t] # "none"}

\* C12: SetDeviceState, Alert, the transport's send operations and the
\* display are entered by the main task only (at start-up and in the
\* closures MainEventLoop runs), hence by one thread at a time.
C12_ControlLoopOnly ==
    /\ ThreadsInside \subseteq {"main"}
    /\ Cardinality(ThreadsInside) <= 1

\* A build with realtime_chat_enabled_ = false: the listening modes are
\* AutoStop and ManualStop. A thread calls SetDeviceState and
\* SetListeningMode, packets arrive, the playback loop and the work queue run.
ListenModes == {"AutoStop", "ManualStop"}

InitListen == AllInit

NextListen ==
    \/ \E S \in QueueStates : ListenSdsBegin(S)
    \/ SdsBarrier
    \/ ListenSdsEntry
    \/ SdsReturn
    \/ \E m \in ListenModes : SetListeningMode(m)
    \/ ListenNetReceive
    \/ OnIncomingAudio
    \/ AudioOutputSilence
    \/ AudioOutputDiscard
    \/ AudioOutputTake
    \/ AudioOutputSchedule
    \/ BgWorkerTake
    \/ BgWorkerRunDecode
    \/ BgWorkerFinish

SpecListen == InitListen /\ [][NextListen]_vars

\* the running SetDeviceState call changes Speaking to Listening in AutoStop
FromSpeakingAutoStop ==
    /\ ctl_target = "Listening"
    /\ ctl_prev = "Speaking"
    /\ listening_mode_ = "AutoStop"

\* C13: SetDeviceState(Listening) issued while Speaking in AutoStop makes
\* Listening the state and sends the start-listening message with mode
\* "auto", and a packet that arrives after the change is decoded only after
\* the decoder has been reset since the change.
C13_ListeningResetsDecoder ==
    /\ [][(device_state_ = "Speaking" /\ listening_mode_ = "AutoStop"
                /\ ListenSdsBegin("Listening"))
            => device_state_' = "Listening"]_vars
    /\ [][(ListenSdsEntry /\ FromSpeakingAutoStop)
            => /\ "listen_start" \in ctl_sent'
               /\ ListenModeName(listening_mode_) = "auto"]_vars
    /\ [][(BgWorkerRunDecode /\ Head(bg_tasks).pkt = NetPacket(1))
            => decoder_stale # "yes"]_vars
\* Application::Start calls CheckNewVersion; CheckVersion fails or succeeds,
\* the button is pressed at any moment.
InitVersion == AllInit

NextVersion ==
    \/ CnvStart
    \/ CnvLoopTop
    \/ \E ok \in BOOLEAN, then \in CheckOutcomes : CnvCheckVersion(ok, then)
    \/ CnvWaitSecond
    \/ ToggleWhileActivating

SpecVersion == InitVersion /\ [][NextVersion]_vars

RECURSIVE Pow2(_)
Pow2(n) == IF n = 0 THEN 1 ELSE 2 * Pow2(n - 1)

\* the wait after the k-th failed attempt in a row: 10, 20, 40, 80, ...
BackoffDelay(k) == 10 * Pow2(k - 1)

\* a wait ends in this step
WaitEnds == cnv_pc = "wait" /\ cnv_pc' = "top"

\* C14 (as stated): every wait between two attempts takes exactly 10, 20,
\* 40, 80, ... seconds, at most MAX_RETRY CheckVersion calls are made in a
\* row, and a success resets the delay to 10 and the count to 0.
C14_WaitsAreExactlyBackoff ==
    /\ [](cnv_calls <= MAX_RETRY)
    /\ [][WaitEnds => cnv_waited' = BackoffDelay(retry_count)]_vars
    /\ [][(\E then \in CheckOutcomes : CnvCheckVersion(TRUE, then))
            => retry_delay' = 10 /\ retry_count' = 0]_vars

\* C14 (amended): the delay of the wait after the k-th failure in a row is
\* 10 * 2^(k-1) seconds; the wait takes that long unless device_state_ is Idle
\* at one of its one-second checks, where it ends at once; the delay doubles
\* either way. The loop returns at the MAX_RETRY-th failure in a row, after at
\* most MAX_RETRY CheckVersion calls, and a success resets delay and count.
C14_BackoffSchedule ==
    /\ [](cnv_calls <= MAX_RETRY)
    /\ [](cnv_pc = "returned" => cnv_calls = MAX_RETRY)
    /\ [](cnv_pc = "wait" => retry_delay = BackoffDelay(retry_count))
    /\ [][WaitEnds => /\ cnv_waited' <= BackoffDelay(retry_count)
                      /\ cnv_waited' < BackoffDelay(retry_count) => device_state_ = "Idle"
                      /\ retry_delay' = 2 * BackoffDelay(retry_count)]_vars
    /\ [][(\E then \in CheckOutcomes : CnvCheckVersion(TRUE, then))
            => retry_delay' = 10 /\ retry_count' = 0]_vars

\* the wait after the third failure in a row ran its 40 seconds
C14_Witness ==
    /\ cnv_pc = "top"
    /\ retry_count = 3
    /\ cnv_waited = 40
    /\ retry_delay = 80
\* a step in which the decoder or the encoder is reset or re-created: the
\* ResetDecoder of Alert and of the entry actions of Speaking, the
\* SetDecodeSampleRate of PlaySound, the encoder's ResetState of the entry
\* actions of Listening
CodecResetStep ==
    \/ Alert
    \/ PlaySoundBarrier
    \/ SdsEntry /\ ctl_target = "Speaking"
    \/ SdsEntry /\ ctl_target = "Listening" /\ ~audio_processor_running

\* C15: the decoder and the encoder are reset or re-created only while the
\* work queue has no pending and no executing unit.
C15_ResetOnlyWhenDrained == [][CodecResetStep => WaitForCompletionReady]_vars
\* Speaking is aborted: the control loop runs state changes, AbortSpeaking and
\* the closures of tts start, tts stop and the UART status frame; packets
\* arrive, the playback loop and the work queue run.
InitAbort == AllInit

NextAbort ==
    \/ \E S \in QueueStates : SdsBegin(S)
    \/ SdsBarrier
    \/ SdsEntry
    \/ SdsReturn
    \/ \E reason \in AbortReasons : AbortSpeaking(reason)
    \/ TtsStart
    \/ TtsStop
    \/ UartSpeakClosure
    \/ PlaySoundQueueEmpty
    \/ PlaySoundBarrier
    \/ PlaySoundEnqueue
    \/ NetReceive(1)
    \/ OnIncomingAudio
    \/ AudioOutputSilence
    \/ AudioOutputDiscard
    \/ AudioOutputTake
    \/ AudioOutputSchedule
    \/ BgWorkerTake
    \/ \E decoded \in BOOLEAN : DecodeUnitRun(decoded)
    \/ BgWorkerFinish

SpecAbort == InitAbort /\ [][NextAbort]_vars

\* a decode unit runs in this step
DecodeStep == \E decoded \in BOOLEAN : DecodeUnitRun(decoded)

\* the unit of this step gave the audio device nothing
NothingPlayed == played'.src \notin {"net", "cue"}

\* AbortSpeaking sets the flag and sends the abort message with its reason
AbortIssued ==
    \A reason \in AbortReasons :
        AbortSpeaking(reason) => aborted_' /\ abort_msg' = AbortMessage(reason)

\* C16 (as stated): AbortSpeaking sets aborted_ and sends the abort message;
\* from then until the next tts start no decode unit of an inbound packet
\* gives the audio device anything.
C16_SilentUntilTtsStart ==
    /\ [][AbortIssued]_vars
    /\ [][(DecodeStep /\ abort_open /\ Head(bg_tasks).pkt.src = "net")
            => NothingPlayed]_vars

\* C16 (amended): AbortSpeaking sets aborted_ and sends the abort message;
\* every decode unit that begins while aborted_ is set gives the audio device
\* nothing; aborted_ is cleared by the closure of tts start, by the closure of
\* tts stop (Speaking, mode not ManualStop) and by the closure of the UART
\* status frame, and by nothing else.
C16_SilentWhileAborted ==
    /\ [][AbortIssued]_vars
    /\ [][(DecodeStep /\ aborted_) => NothingPlayed]_vars
    /\ [][(aborted_ /\ ~aborted_') => (TtsStart \/ TtsStop \/ UartSpeakClosure)]_vars

\* the decode unit of an inbound packet returned at its test of aborted_
\* after an abort message was sent
C16_Witness ==
    /\ bg_pc = "fin"
    /\ Head(bg_tasks).kind = "decode"
    /\ Head(bg_tasks).pkt.src = "net"
    /\ played = Skipped
    /\ aborted_
    /\ abort_msg = AbortMessage("WakeWordDetected")
\* the OnIncomingAudio callback, the packet numbered 1 when it is queued
\* while device_state_ is Listening, else 0
OnIncomingAudioTagged ==
    /\ net_pc = "callback"
    /\ audio_decode_queue_' =
           IncomingAudioQueue(audio_decode_queue_,
                              NetPacket(IF device_state_ = "Listening" THEN 1 ELSE 0))
    /\ net_pkt' = NoPacket
    /\ net_pc' = "idle"
    /\ UNCHANGED net_seq
    /\ UNCHANGED <<stateVars, codecVars, ctlVars, aoVars>>
    /\ UNCHANGED <<bgVars, wfcVars, schedVars, protoVars, extVars>>

\* The playback loop against the state changes: SetDeviceState for the
\* states whose playback differs, inbound packets, the loop and the work queue.
InitPlayback == AllInit

NextPlayback ==
    \/ \E S \in QueueStates : SdsBegin(S)
    \/ SdsBarrier
    \/ SdsEntry
    \/ SdsReturn
    \/ NetReceive(1)
    \/ OnIncomingAudioTagged
    \/ AudioOutputSilence
    \/ AudioOutputDiscard
    \/ AudioOutputTake
    \/ AudioOutputSchedule
    \/ BgWorkerTake
    \/ BgWorkerRunDecode
    \/ BgWorkerFinish

SpecPlayback == InitPlayback /\ [][NextPlayback]_vars

\* a step of the playback loop (OnAudioOutput)
PlaybackLoopStep ==
    \/ AudioOutputSilence
    \/ AudioOutputDiscard
    \/ AudioOutputTake
    \/ AudioOutputSchedule

\* C17: while device_state_ is Listening the playback loop submits no decode
\* unit; when it finds the queue non-empty in Listening it empties the whole
\* queue; a packet queued in Listening is never decoded and played.
C17_ListeningSubmitsNothing ==
    /\ [][BgWorkerRunDecode => Head(bg_tasks).pkt # NetPacket(1)]_vars
    /\ [][(PlaybackLoopStep /\ device_state_ = "Listening")
            => UNCHANGED <<bg_main_tasks, bg_active_tasks>>]_vars
    /\ [][(PlaybackLoopStep /\ device_state_ = "Listening" /\ ao_pc = "idle"
                /\ audio_decode_queue_ # <<>>)
            => audio_decode_queue_' = <<>>]_vars
\* An open MQTT channel with the session "s1", the device Listening or
\* Speaking: goodbye and tts start messages arrive, the control loop runs.
InitGoodbye ==
    /\ BgInit /\ WfcInit /\ SchedInit /\ ExtInit
    /\ AppRestInit
    /\ device_state_ \in {"Listening", "Speaking"}
    /\ UdpInit({CHOOSE k \in AesKeys : TRUE}, {Uint32(0)})
    /\ protocol_kind = "mqtt"
    /\ publish_topic_ = "topic"
    /\ link = "connected"
    /\ udp_ = "open"
    /\ session_id_ = "s1"
    /\ server_sample_rate_ = 16000
    /\ server_frame_duration_ = 60
    /\ server_hello_event = FALSE
    /\ error_occurred_ = FALSE
    /\ oac_pc = "idle"
    /\ oac_result = "true"
    /\ oac_cause = "none"
    /\ text_sent = [type |-> "hello", session_id |-> "absent", n |-> 1]
    /\ hello_owed = FALSE
    /\ hs_hello = OpenHello
    /\ hello_in_call = TRUE

NextGoodbye ==
    \/ \E sid \in GoodbyeIds : MqttOnGoodbye(sid)
    \/ MqttOnTtsStart
    \/ LoopWake
    \/ LoopSwap
    \/ LoopRunCloseAudioChannel
    \/ LoopRunSetDeviceState

\* MainEventLoop is a task of its own: it runs whenever it can
SpecGoodbye ==
    /\ InitGoodbye
    /\ [][NextGoodbye]_vars
    /\ WF_vars(LoopWake)
    /\ WF_vars(LoopSwap)
    /\ WF_vars(LoopRunCloseAudioChannel)
    /\ WF_vars(LoopRunSetDeviceState)

\* the closure with CloseAudioChannel waits for the control loop
ClosePending ==
    CloseClosure \in Range(app_main_tasks) \cup Range(loop_tasks)

\* C18: a goodbye whose session id is the current one or absent gives
\* CloseAudioChannel to Schedule and touches neither the channel nor the
\* device state on the transport's thread; the control loop then closes the
\* channel and the device eventually is Idle; a goodbye with another
\* session id leaves the channel, the state and the closures alone.
C18_GoodbyeClosesOnControlLoop ==
    /\ [][\A sid \in GoodbyeIds :
            MqttOnGoodbye(sid) =>
               /\ UNCHANGED <<udp_, session_id_, device_state_, text_sent>>
               /\ IF sid \in {"absent", session_id_}
                  THEN app_main_tasks' = Append(app_main_tasks, CloseClosure)
                  ELSE UNCHANGED app_main_tasks]_vars
    /\ [][udp_' # udp_ => LoopRunCloseAudioChannel]_vars
    /\ (ClosePending ~> (udp_ = "null" /\ device_state_ = "Idle"))

\* the channel was closed by the control loop, the goodbye of the device
\* went out and the device is Idle
C18_Witness ==
    /\ udp_ = "null"
    /\ text_sent.type = "goodbye"
    /\ device_state_ = "Idle"
    /\ app_main_tasks = <<>>
    /\ loop_tasks = <<>>

\* CloseAudioChannel of either transport runs in this step
CloseStep == MqttCloseAudioChannel \/ WsCloseAudioChannel

\* C19: the session lasts exactly as long as the channel: when
\* CloseAudioChannel returns session_id_ is empty, and a control message sent
\* while no channel is open carries no session id of a closed session.
C19_SessionClearedOnClose ==
    /\ [][CloseStep => session_id_' = ""]_vars
    /\ [][(/\ oac_pc = "idle"
           /\ oac_result = "none"
           /\ text_sent' # text_sent
           /\ text_sent'.type \in ControlTypes)
           => text_sent'.session_id = ""]_vars

\* Either transport with and without what it needs to send (a publish
\* topic, a socket), the device in a state of a conversation: the
\* application opens and closes the channel, sends control messages and
\* changes the state, the link fails at any time.
InitError ==
    /\ BgInit /\ WfcInit /\ SchedInit /\ ExtInit
    /\ AppRestInit
    /\ device_state_ \in {"Idle", "Connecting", "Listening", "Speaking"}
    /\ UdpInit({CHOOSE k \in AesKeys : TRUE}, {Uint32(0)})
    /\ HsInit(ProtocolKinds, {"", "topic"}, "null")

NextError ==
    \/ ErrOpenAudioChannelBegin
    \/ ErrOpenAudioChannelSendHello
    \/ ErrOpenAudioChannelWait
    \/ MqttParseServerHello(OpenHello)
    \/ WsParseServerHello(OpenHello)
    \/ \E type \in {"listen_start", "abort"} : ErrSendControl(type)
    \/ ErrCloseAudioChannel
    \/ LinkDisconnected
    \/ OnNetworkErrorRun
    \/ PlaySoundQueueEmpty
    \/ PlaySoundBarrier
    \/ PlaySoundEnqueue
    \/ \E S \in {"Connecting", "Listening"} : oac_pc = "idle" /\ SdsBegin(S)
    \/ SdsBarrier
    \/ SdsEntry
    \/ SdsReturn

SpecError == InitError /\ [][NextError]_vars

\* SendText returns false in this step
SendTextFailed == last_send' # last_send /\ last_send'.ret = "false"

\* the text of this step was given to the link: a publish topic is set
\* (websocket_ is not null)
SendReachedLink ==
    IF protocol_kind = "mqtt" THEN publish_topic_ # "" ELSE link # "none"

\* the wait for the hello of the peer ends without the hello in this step
HandshakeTimedOut == oac_pc = "wait" /\ oac_cause' = "timeout"

\* on_network_error_ is called in this step
CallbackCalled == ctl_pc # "net_err" /\ ctl_pc' = "net_err"

\* the call of on_network_error_ returns in this step
CallbackReturns == ctl_pc = "net_err" /\ ctl_pc' # "net_err"

InitOpenChannel ==
    /\ BgInit /\ WfcInit /\ SchedInit /\ ExtInit
    /\ AppRestInit
    /\ device_state_ \in {"Idle", "Listening"}
    /\ UdpInit({CHOOSE k \in AesKeys : TRUE}, {Uint32(0)})
    /\ protocol_kind \in ProtocolKinds
    /\ publish_topic_ = "topic"
    /\ link = "connected"
    /\ udp_ = IF protocol_kind = "mqtt" THEN "open" ELSE "null"
    /\ session_id_ = IF protocol_kind = "mqtt" THEN "s1" ELSE ""
    /\ server_sample_rate_ = 16000
    /\ server_frame_duration_ = 60
    /\ server_hello_event = FALSE
    /\ error_occurred_ = FALSE
    /\ oac_pc = "idle"
    /\ oac_result = "true"
    /\ oac_cause = "none"
    /\ text_sent = [type |-> "hello", session_id |-> "absent", n |-> 1]
    /\ hello_owed = FALSE
    /\ hs_hello = OpenHello
    /\ hello_in_call = TRUE

NextMalformed ==
    \/ \E kind \in MalformedKinds : OnMalformedMessage(kind)
    \/ ~halted /\ MqttOnTtsStart
    \/ ~halted /\ \E d \in TickSteps : Tick(d)
    \/ ~halted /\ LoopWake
    \/ ~halted /\ LoopSwap
    \/ ~halted /\ LoopRunSetDeviceState

SpecMalformed == InitOpenChannel /\ [][NextMalformed]_vars

\* a message that lacks a member is handled in this step
MalformedStep == \E kind \in MalformedKinds : OnMalformedMessage(kind)

\* C21: a message that lacks an expected member is ignored: no handler reads
\* through a null pointer, the firmware (and with it the control loop) keeps
\* running, and the step that handles the message neither schedules a change
\* of the device state nor sets the event that completes the handshake.
C21_MalformedIgnored ==
    /\ [](invalid_access = "none")
    /\ [](~halted)
    /\ [][MalformedStep
            => UNCHANGED <<device_state_, app_main_tasks, server_hello_event>>]_vars

\* C22: CloseAudioChannel of either transport gives a goodbye with the
\* session id to SendText (the link may refuse it) and releases the channel
\* object: IsAudioChannelOpened() is false when it returns, and becomes true
\* again only inside an OpenAudioChannel call or when one returns true.
C22_CloseSendsGoodbye ==
    /\ [][ErrCloseAudioChannel
            => (/\ last_send'.n # last_send.n
                /\ last_send'.ret = "true"
                      => (/\ text_sent'.type = "goodbye"
                          /\ text_sent'.session_id = session_id_)
                /\ ~IsAudioChannelOpened')]_vars
    /\ [][(~IsAudioChannelOpened /\ IsAudioChannelOpened')
            => (oac_pc' # "idle" \/ oac_result' = "true")]_vars

\* An open channel of either transport: the trigger closes it while the
\* device listens, the socket is disconnected, time passes, the control loop
\* runs whenever it can.
NextClosed ==
    \/ ToggleChatStateListening
    \/ WsOnDisconnected
    \/ \E d \in TickSteps : Tick(d)
    \/ LoopWake
    \/ LoopSwap
    \/ LoopRunClose
    \/ LoopRunSetDeviceState

SpecClosed ==
    /\ InitOpenChannel
    /\ [][NextClosed]_vars
    /\ WF_vars(LoopWake)
    /\ WF_vars(LoopSwap)
    /\ WF_vars(LoopRunClose)
    /\ WF_vars(LoopRunSetDeviceState)

\* the channel object of the transport exists and its link is up
ChannelObject ==
    IF protocol_kind = "mqtt" THEN udp_ # "null" ELSE link = "connected"

\* C23: when the channel is closed, by CloseAudioChannel or by a
\* disconnection of the socket, the OnAudioChannelClosed callback is called
\* (its closure with SetDeviceState(Idle) is scheduled in that step), and a
\* device that was Listening is Idle eventually.
C23_ClosedChannelLeadsToIdle ==
    /\ [][(ChannelObject /\ ~ChannelObject')
            => (/\ app_main_tasks' # <<>>
                /\ app_main_tasks'[Len(app_main_tasks')] = IdleClosure)]_vars
    /\ ((~ChannelObject /\ device_state_ = "Listening")
            ~> (device_state_ = "Idle"))

\* The sessions of the datagram transport: the control loop opens the
\* channel (again and again), sends audio between two calls and closes it;
\* the peer answers the hellos and sends datagrams.
InitSession ==
    /\ CoreInit
    /\ \/ /\ UdpInit({CHOOSE k \in AesKeys : TRUE}, {Uint32(0)})
          /\ HsInit({"mqtt"}, {"topic"}, "null")
       \/ /\ UdpInit({CHOOSE k \in AesKeys : TRUE}, StartSequences)
          /\ HsInit({"mqtt"}, {"topic"}, "open")

\* the hellos, payloads and datagrams of these sessions
SessionHellos ==
    {h \in Hellos : /\ h.session_id = "s1"
                    /\ h.sample_rate = 16000
                    /\ h.frame_duration = 60}

SessionPayloads == {PayloadOf(n) : n \in {0, AesBlockSize + 1}}

SessionPackets ==
    {ServerPacket(aes_key, AudioPacketType, s, PayloadOf(1)) :
        s \in {1, MaxSequence}}

NextSession ==
    \/ MqttOpenAudioChannelBegin
    \/ MqttOpenAudioChannelSendHello
    \/ MqttOpenAudioChannelWait
    \/ \E h \in SessionHellos : MqttParseServerHello(h)
    \/ \E data \in SessionPayloads : oac_pc = "idle" /\ SendAudio(data)
    \/ UdpReceive /\ udp_pkt' \in SessionPackets
    \/ UdpOnMessage
    \/ MqttCloseAudioChannel

SpecSession == InitSession /\ [][NextSession]_vars

\* SendAudio has sent a datagram
AudioSent == udp_sends' # udp_sends

\* C24: the hello of the peer that completes a handshake leaves both
\* sequence counters at 0; a datagram sent carries in its nonce, big-endian,
\* the length of its payload mod 2^16 at offset 2 and the incremented
\* local_sequence_ mod 2^32 at offset 12; local_sequence_ changes in no other
\* step, so the sequences of one session are 1, 2, 3, ... with no value
\* twice before the counter wraps.
C24_NonceCarriesLengthAndSequence ==
    /\ [][(server_hello_event' /\ ~server_hello_event)
            => (/\ local_sequence_' = Uint32(0)
                /\ remote_sequence_' = Uint32(0))]_vars
    /\ [][AudioSent
            => (/\ local_sequence_' = Uint32Inc(local_sequence_)
                /\ local_sequence_ # <<65535, 65535>>
                     => (\/ local_sequence_'[1] > local_sequence_[1]
                         \/ /\ local_sequence_'[1] = local_sequence_[1]
                            /\ local_sequence_'[2] > local_sequence_[2])
                /\ udp_sent'[3] * 256 + udp_sent'[4]
                     = Len(udp_sent_data') % 65536
                /\ PacketSequence(udp_sent') = local_sequence_'
                /\ \A i \in (1..AesBlockSize) \ {3, 4, 13, 14, 15, 16} :
                       udp_sent'[i] = aes_nonce_[i])]_vars
    /\ [][local_sequence_' # local_sequence_
            => (AudioSent \/ server_hello_event')]_vars

\* C24 witness: in a session opened by a handshake of this run, the second
\* datagram has been sent, with sequence 2
C24_Witness ==
    /\ hs_hello # NoHello
    /\ oac_result = "true"
    /\ udp_ = "open"
    /\ udp_sends = 2
    /\ local_sequence_ = Uint32(2)
    /\ PacketSequence(udp_sent) = Uint32(2)

\* CheckNewVersion finds a new version while the playback loop, the inbound
\* audio and the worker of the work queue go on; the worker and the units
\* submitted end with the BackgroundTask object.
NextUpgrade ==
    \/ CnvStart
    \/ CnvLoopTop
    \/ CnvCheckVersion(TRUE, "upgrade")
    \/ UpgAnnounce
    \/ UpgDisableAudio
    \/ UpgClearQueue
    \/ UpgWaitForCompletion
    \/ UpgDelete
    \/ UpgStartUpgrade
    \/ NetReceive(2)
    \/ OnIncomingAudio
    \/ AudioOutputTake
    \/ background_task_ = "object" /\ AudioOutputSchedule
    \/ background_task_ = "object" /\ BgWorkerTake
    \/ background_task_ = "object" /\ BgWorkerRunDecode
    \/ background_task_ = "object" /\ BgWorkerFinish

SpecUpgrade == InitVersion /\ [][NextUpgrade]_vars

NextActivate ==
    \/ CnvStart
    \/ CnvLoopTop
    \/ CnvCheckVersion(TRUE, "done")
    \/ ActBegin
    \/ \E err \in ActivateResults : ActAttempt(err)
    \/ ActAfterWait
    \/ ToggleWhileActivating

SpecActivate == InitVersion /\ [][NextActivate]_vars

\* C26: ota_.Activate() is called at most 10 times in a round; the first
\* ESP_OK sets CHECK_NEW_VERSION_DONE_EVENT and ends the round; the round
\* ends after the wait of an attempt when device_state_ is Idle then; the
\* wait after ESP_ERR_TIMEOUT is 3 s and after any other error 10 s.
C26_ActivationRound ==
    /\ [](act_calls <= ACTIVATE_ATTEMPTS)
    /\ [][(\E err \in ActivateResults : ActAttempt(err))
            => IF act_err' = "ESP_OK"
               THEN check_done' /\ cnv_pc' = "top"
               ELSE /\ cnv_pc' = "act_wait"
                    /\ check_done' = check_done
                    /\ cnv_waited' = (IF act_err' = "ESP_ERR_TIMEOUT"
                                      THEN 3 ELSE 10)]_vars
    /\ [][(ActAfterWait /\ device_state_ = "Idle") => cnv_pc' = "top"]_vars
    /\ [][(ActAfterWait /\ cnv_pc' = "top")
            => (device_state_ = "Idle" \/ act_calls = ACTIVATE_ATTEMPTS)]_vars

\* C26 witness: the tenth attempt of a round has timed out and its wait of
\* 3 s is on
C26_Witness ==
    /\ cnv_pc = "act_wait"
    /\ act_calls = ACTIVATE_ATTEMPTS
    /\ act_err = "ESP_ERR_TIMEOUT"
    /\ cnv_waited = 3

\* Cues of several packets are played while the transport delivers audio
\* and the playback loop and the worker take the queue down.
NextCue ==
    \/ \E n \in 2..MaxCueRecords : PlaySoundCue(n)
    \/ PlaySoundQueueEmpty
    \/ PlaySoundBarrier
    \/ PlaySoundEnqueue
    \/ NetReceive(2)
    \/ OnIncomingAudio
    \/ AudioOutputTake
    \/ AudioOutputSchedule
    \/ BgWorkerTake
    \/ BgWorkerRunDecode
    \/ BgWorkerFinish

SpecCue == InitQueue /\ [][NextCue]_vars

\* C27: the packets of a cue lie in the decode queue at consecutive places,
\* in the order of the asset, with no packet of the transport's
\* OnIncomingAudio callback between two of them; PlaySound appends them after
\* its wait for the empty queue and its WaitForCompletion.
C27_CuePacketsConsecutive ==
    /\ ctl_pc = "ps_enqueue"
         => \A k \in DOMAIN audio_decode_queue_ :
                audio_decode_queue_[k].src = "cue"
                  => \A m \in k..Len(audio_decode_queue_) :
                         audio_decode_queue_[m].src = "cue"
    /\ \A k, m \in DOMAIN audio_decode_queue_ :
         (/\ k < m
          /\ audio_decode_queue_[k].src = "cue"
          /\ audio_decode_queue_[m].src = "cue")
            => /\ audio_decode_queue_[m].id = audio_decode_queue_[k].id + (m - k)
               /\ \A j \in k..m : audio_decode_queue_[j].src = "cue"

\* Packets of the transport and one cue go through the queue, the playback
\* loop and the worker, while the device changes between Speaking and
\* Listening.
NextFifo ==
    \/ Len(enq_log) < MaxEnqueued /\ net_pc = "idle" /\ NetReceive(MaxEnqueued + 1)
    \/ FifoOnIncomingAudio
    \/ CuePacket(1) \notin Range(enq_log) /\ PlaySoundCue(2)
    \/ PlaySoundQueueEmpty
    \/ PlaySoundBarrier
    \/ FifoPlaySoundEnqueue
    \/ \E S \in {"Speaking", "Listening"} : SdsBegin(S)
    \/ SdsBarrier
    \/ SdsEntry
    \/ SdsReturn
    \/ AudioOutputDiscard
    \/ AudioOutputTake
    \/ AudioOutputSchedule
    \/ BgWorkerTake
    \/ \E decoded \in BOOLEAN : FifoDecodeUnitRun(decoded)
    \/ BgWorkerFinish

SpecFifo == InitQueue /\ [][NextFifo]_vars

\* the place of a packet in the order of the appends
EnqueuePlace(pkt) == CHOOSE i \in DOMAIN enq_log : enq_log[i] = pkt

\* C28: the packets whose audio reaches the output are packets that were
\* appended to the decode queue, each at most once, in the order they were
\* appended; the queue itself and the units of the work queue hold packets
\* in that order.
C28_DecodedInEnqueueOrder ==
    /\ \A i \in DOMAIN dec_log : dec_log[i] \in Range(enq_log)
    /\ \A i, j \in DOMAIN dec_log :
         i < j => EnqueuePlace(dec_log[i]) < EnqueuePlace(dec_log[j])
    /\ \A i, j \in DOMAIN audio_decode_queue_ :
         i < j => EnqueuePlace(audio_decode_queue_[i])
                    < EnqueuePlace(audio_decode_queue_[j])
    /\ \A i \in DOMAIN dec_log, j \in DOMAIN audio_decode_queue_ :
         EnqueuePlace(dec_log[i]) < EnqueuePlace(audio_decode_queue_[j])

\* C28 witness: of four packets appended three went to the output, a cue's
\* and the transport's among them
C28_Witness ==
    /\ Len(dec_log) = 3
    /\ Len(enq_log) = MaxEnqueued
    /\ \E i \in DOMAIN dec_log : dec_log[i].src = "cue"
    /\ \E i \in DOMAIN dec_log : dec_log[i].src = "net"

\* C29: the closure of a chat start (ToggleChatState, ChangeChatState,
\* StartListening called in Idle) calls SetDeviceState(Connecting) only when
\* device_state_ is still Idle as it runs: the state never goes from
\* Listening or Speaking to Connecting.
C29_ConnectingOnlyFromIdle ==
    [][(device_state_ \in {"Listening", "Speaking"})
         => (device_state_' # "Connecting")]_vars

\* A session of the datagram transport from the end of its handshake: the
\* hello of the peer is in, with 16000 Hz or without a rate (24000 Hz stays),
\* OpenAudioChannel returns; then the device speaks and listens, cues are
\* played, packets of the transport come in and are decoded.
InitDecode ==
    /\ BgInit /\ WfcInit /\ SchedInit /\ ExtInit
    /\ AppRestInit
    /\ device_state_ = "Connecting"
    /\ UdpInit({CHOOSE k \in AesKeys : TRUE}, {Uint32(0)})
    /\ protocol_kind = "mqtt"
    /\ publish_topic_ = "topic"
    /\ link = "connected"
    /\ udp_ = "null"
    /\ session_id_ = "s1"
    /\ server_sample_rate_ \in {16000, 24000}
    /\ server_frame_duration_ = 60
    /\ server_hello_event = TRUE
    /\ error_occurred_ = FALSE
    /\ oac_pc = "wait"
    /\ oac_result = "none"
    /\ oac_cause = "none"
    /\ text_sent = [type |-> "hello", session_id |-> "absent", n |-> 1]
    /\ hello_owed = FALSE
    /\ hs_hello = [OpenHello EXCEPT
                     !.sample_rate = IF server_sample_rate_ = 16000
                                     THEN 16000 ELSE 0]
    /\ hello_in_call = TRUE

NextDecode ==
    \/ OpenAudioChannelOpened
    \/ oac_pc = "idle" /\ \E S \in {"Speaking", "Listening"} : SdsBegin(S)
    \/ SdsBarrier
    \/ SdsEntry
    \/ SdsReturn
    \/ oac_pc = "idle" /\ PlaySoundCall
    \/ PlaySoundQueueEmpty
    \/ PlaySoundBarrier
    \/ PlaySoundEnqueue
    \/ udp_ = "open" /\ NetReceive(2)
    \/ OnIncomingAudio
    \/ AudioOutputDiscard
    \/ AudioOutputTake
    \/ AudioOutputSchedule
    \/ BgWorkerTake
    \/ BgWorkerRunDecode
    \/ BgWorkerFinish

SpecDecode == InitDecode /\ [][NextDecode]_vars

\* C30: when the decode unit of a packet of the transport runs, the rate of
\* the decoder is the server_sample_rate_ of the session's handshake, also
\* after PlaySound has set the decoder to 16000 Hz for a cue.
C30_DecoderAtServerRate ==
    [][(BgWorkerRunDecode /\ Head(bg_tasks).pkt.src = "net")
         => (decoder_sample_rate = server_sample_rate_)]_vars

\* The update flow of CheckNewVersion beside the playback loop, which is not
\* held back by the deletion of the BackgroundTask.
NextTeardown ==
    \/ NextUpgrade
    \/ AudioOutputScheduleDeleted

SpecTeardown == InitVersion /\ [][NextTeardown]_vars

\* the playback loop's call of background_task_->Schedule
AudioOutputCallsSchedule == ao_pc = "schedule" /\ ao_pc' # "schedule"

\* C31: the work queue is never used after it has been destroyed: every call
\* of Schedule by the playback loop is made while the BackgroundTask exists.
C31_NoUseAfterDelete ==
    [][AudioOutputCallsSchedule => (background_task_ = "object")]_vars

\* Start from CheckNewVersion to MainEventLoop: the version check fails or
\* finds nothing new, the activation may be asked for, the button may be
\* pressed while the device is Activating.
NextStart ==
    \/ CnvStart
    \/ CnvLoopTop
    \/ CnvCheckVersion(FALSE, "done")
    \/ CnvWaitSecond
    \/ CnvNoActivation
    \/ ActBegin
    \/ \E err \in ActivateResults : ActAttempt(err)
    \/ ActAfterWait
    \/ ToggleWhileActivating
    \/ StartWaitCheckDone
    \/ StartSetIdle
    \/ SdsBarrier
    \/ SdsEntry
    \/ SdsReturn
    \/ StartEnterLoop

SpecStart == InitVersion /\ [][NextStart]_vars

\* C32: on every return path of CheckNewVersion the check-done signal has
\* been set, so that the wait of Start on that signal ends: whenever
\* CheckNewVersion has returned and Start waits, CHECK_NEW_VERSION_DONE_EVENT
\* is set.
C32_DoneSetOnEveryReturn ==
    cnv_pc \in {"done", "returned"} => check_done

\* One press of the button in Idle after another: the closure of
\* ToggleChatState opens the channel, the link and the peer answer or not.
InitConnect ==
    /\ BgInit /\ WfcInit /\ SchedInit /\ ExtInit
    /\ AppRestInit
    /\ device_state_ = "Idle"
    /\ UdpInit({CHOOSE k \in AesKeys : TRUE}, {Uint32(0)})
    /\ HsInit(ProtocolKinds, {"", "topic"}, "null")

NextConnect ==
    \/ ConnectClosureBegin
    \/ ErrOpenAudioChannelSendHello
    \/ ErrOpenAudioChannelWait
    \/ MqttParseServerHello(OpenHello)
    \/ WsParseServerHello(OpenHello)
    \/ ConnectClosureListen
    \/ SdsBarrier
    \/ SdsEntry
    \/ SdsReturn
    \/ OnNetworkErrorRun
    \/ PlaySoundQueueEmpty
    \/ PlaySoundBarrier
    \/ PlaySoundEnqueue

\* the thread of the control loop goes on with the call it is in; the button
\* and the peer are free to do nothing
SpecConnect ==
    /\ InitConnect
    /\ [][NextConnect]_vars
    /\ WF_vars(ErrOpenAudioChannelSendHello)
    /\ WF_vars(ErrOpenAudioChannelWait)
    /\ WF_vars(ConnectClosureListen)
    /\ WF_vars(SdsBarrier)
    /\ WF_vars(SdsEntry)
    /\ WF_vars(SdsReturn)
    /\ WF_vars(OnNetworkErrorRun)
    /\ WF_vars(PlaySoundQueueEmpty)
    /\ WF_vars(PlaySoundBarrier)
    /\ WF_vars(PlaySoundEnqueue)

\* C33: if OpenAudioChannel returns false the device does not stay in
\* Connecting forever: after every return of false the state is Idle at some
\* later time.
C33_FailedOpenLeadsToIdle ==
    (oac_pc = "idle" /\ oac_result = "false") ~> (device_state_ = "Idle")

\* The control loop and the threads that call Schedule, each going on with
\* the call it is in; no thread has to call Schedule.
SpecSchedFair ==
    /\ InitSched
    /\ [][NextSched]_vars
    /\ \A t \in SchedThreads : WF_vars(ScheduleSetBits(t))
    /\ WF_vars(LoopWake)
    /\ WF_vars(LoopSwap)
    /\ WF_vars(LoopRun)

\* closures passed to Schedule so far (the append is done)
ScheduledIds == 1..(next_closure - 1)

\* how often closure id has run
TimesRun(id) == Cardinality({i \in DOMAIN exec_log : exec_log[i] = id})

\* C34: every closure passed to Schedule is executed exactly once by
\* MainEventLoop: none runs twice or without having been scheduled, each is
\* run at some time after its append, and the loop never sleeps with the
\* event bit clear, no Schedule call under way and a closure in the list;
\* this from the start, the loop taking its first step at any time.
C34_EveryClosureRunsOnce ==
    /\ [](\A id \in 1..MaxClosures :
             TimesRun(id) <= (IF id \in ScheduledIds THEN 1 ELSE 0))
    /\ \A id \in 1..MaxClosures :
          (id \in ScheduledIds) ~> (TimesRun(id) = 1)
    /\ []((/\ loop_pc = "wait"
           /\ ~schedule_event
           /\ \A t \in SchedThreads : sch_pc[t] = "idle")
          => app_main_tasks = <<>>)

\* C34 witness: every closure has run once, the first two scheduled before
\* the loop took its first step, and the loop sleeps
C34_Witness ==
    /\ Len(exec_log) = MaxClosures
    /\ \A id \in 1..MaxClosures : TimesRun(id) = 1
    /\ loop_pc = "wait"
    /\ ~schedule_event

\* The device state machine with its threads going on: the transport's
\* callback, the playback loop and the worker of the work queue take their
\* next step, the thread inside SetDeviceState leaves the wait if the work
\* queue is drained again and again; callers and the peer are free.
SpecStateFair ==
    /\ InitState
    /\ [][NextState]_vars
    /\ SF_vars(SdsBarrier)
    /\ WF_vars(SdsEntry)
    /\ WF_vars(SdsReturn)
    /\ WF_vars(OnIncomingAudio)
    /\ WF_vars(AudioOutputSchedule)
    /\ WF_vars(BgWorkerTake)
    /\ WF_vars(BgWorkerRunDecode)
    /\ WF_vars(BgWorkerFinish)

\* C35: every SetDeviceState call returns at some time: the wait for the
\* work queue to drain ends although the playback loop goes on submitting
\* units.
C35_SetDeviceStateReturns ==
    (ctl_pc = "sds_wait") ~> (ctl_pc = "idle")

\* C36: once IsAudioChannelOpened() has returned false it returns false
\* until the next successful OpenAudioChannel; no OpenAudioChannel is called
\* in SpecTimeout, so a channel that is not open never becomes open there,
\* whatever comes in.
C36_ClosedUntilReopened ==
    [][(~IsAudioChannelOpened) => (~IsAudioChannelOpened')]_vars

\* The closures of tts start and tts stop on the control loop, between state
\* changes of other closures, mode changes and AbortSpeaking; packets arrive,
\* the playback loop and the work queue run.  A closure runs to its end
\* before the next one begins.
TtsStates == {"Idle", "Connecting", "Listening"}

BetweenClosures == ctl_pc = "idle" /\ ctl_target = "Unknown"

NextTts ==
    \/ \E S \in TtsStates : BetweenClosures /\ SdsBegin(S)
    \/ ctl_pc = "tts" /\ SdsBegin("Speaking")
    \/ SdsBarrier
    \/ SdsEntry
    \/ SdsReturn
    \/ \E m \in ListeningModes : BetweenClosures /\ listening_mode_' = m
                                 /\ UNCHANGED <<device_state_, clock_ticks_, codecVars,
                                                ctlVars, aoVars, netVars, audio_decode_queue_>>
                                 /\ UNCHANGED <<bgVars, wfcVars, schedVars, protoVars, extVars>>
    \/ BetweenClosures /\ AbortSpeaking("None")
    \/ BetweenClosures /\ TtsStart
    \/ BetweenClosures /\ TtsStopManual
    \/ BetweenClosures /\ TtsStopCue
    \/ PlaySoundQueueEmpty
    \/ PlaySoundBarrier
    \/ PlaySoundEnqueue
    \/ TtsStopListen
    \/ NetReceive(1)
    \/ OnIncomingAudio
    \/ AudioOutputDiscard
    \/ AudioOutputTake
    \/ AudioOutputSchedule
    \/ BgWorkerTake
    \/ BgWorkerRunDecode
    \/ BgWorkerFinish

SpecTts == InitAbort /\ [][NextTts]_vars

\* what the closures of tts stop do, in the claim and in its amended form:
\* they act in Speaking only, after the work queue has drained; in ManualStop
\* the device goes to Idle, else the cue is played and the device goes to
\* Listening
TtsStopActs ==
    /\ [][TtsStopManual => (/\ device_state_ = "Speaking"
                            /\ WaitForCompletionReady
                            /\ device_state_' = "Idle")]_vars
    /\ [][TtsStopCue => (/\ device_state_ = "Speaking"
                         /\ WaitForCompletionReady
                         /\ listening_mode_ # "ManualStop"
                         /\ UNCHANGED device_state_)]_vars
    /\ [][TtsStopListen => (device_state_' = "Listening")]_vars
    /\ [](ctl_target = "Listening" => device_state_ \in {"Speaking", "Listening"})

\* what the closure of tts start does to the device state, in the claim and
\* in its amended form: SetDeviceState(Speaking) is called when the state is
\* Idle or Listening and in no other state, and Speaking is entered in no
\* other way
TtsStartMoves ==
    /\ [][TtsStart => (/\ UNCHANGED device_state_
                       /\ (ctl_pc' = "tts") <=> (device_state_ \in {"Idle", "Listening"}))]_vars
    /\ [][(device_state_ # "Speaking" /\ device_state_' = "Speaking")
            => (ctl_pc = "tts" /\ device_state_ \in {"Idle", "Listening"})]_vars
    /\ [][(ctl_pc = "tts" /\ ctl_pc' # "tts") => (device_state_' = "Speaking")]_vars

\* C37 (as stated): the closure of tts start clears aborted_ and moves the
\* device to Speaking only when the state is Idle or Listening, and changes
\* nothing in any other state; the closure of tts stop acts only in Speaking.
C37_TtsStartOnlyWhenIdleOrListening ==
    /\ TtsStartMoves
    /\ [][TtsStart => (IF device_state_ \in {"Idle", "Listening"}
                       THEN aborted_' = FALSE
                       ELSE UNCHANGED aborted_)]_vars
    /\ TtsStopActs

\* C37 (amended): the closure of tts start clears aborted_ in every state and
\* moves the device to Speaking only when the state is Idle or Listening; the
\* closure of tts stop acts only in Speaking.
C37_TtsStartClearsAlways ==
    /\ TtsStartMoves
    /\ [][TtsStart => (aborted_' = FALSE)]_vars
    /\ TtsStopActs

\* C37 witness: the closure of a tts start has cleared aborted_ after
\* AbortSpeaking, and the device is Speaking in ManualStop
C37_Witness ==
    /\ device_state_ = "Speaking"
    /\ ~aborted_
    /\ abort_msg # NoAbortMessage
    /\ ~abort_open
    /\ listening_mode_ = "ManualStop"

\* Speaking is aborted and an alert with a sound is raised: the steps of
\* SpecAbort, and Alert called on the control loop's thread.
NextAlert ==
    \/ NextAbort
    \/ Alert

SpecAlert == InitAbort /\ [][NextAlert]_vars

\* the worker runs the decode unit of a packet of a cue in this step
CueUnitRuns ==
    /\ bg_pc = "cb"
    /\ bg_pc' = "fin"
    /\ Head(bg_tasks).kind = "decode"
    /\ Head(bg_tasks).pkt.src = "cue"

\* C38: the packets of a cue enqueued by PlaySound are decoded and given to
\* the output: no decode unit of a cue packet returns at its test of
\* aborted_, also when the cue is raised after AbortSpeaking.
C38_CueNotDiscarded ==
    [][CueUnitRuns => (played' # Skipped)]_vars

\* StopListening is called at any time by the button's thread while the
\* control loop runs the closures of StopListening, of ToggleChatState in
\* Idle and of tts start messages.
NextStop ==
    \/ StopListening
    \/ ToggleChatStateIdle
    \/ MqttOnTtsStart
    \/ LoopWake
    \/ LoopSwap
    \/ LoopRunStopListening
    \/ LoopRunOpenBegin
    \/ LoopRunOpenEnd
    \/ LoopRunSetDeviceState

SpecStop == InitOpenChannel /\ [][NextStop]_vars

\* closures of StopListening in main_tasks_
StopPending ==
    Cardinality({i \in DOMAIN app_main_tasks : app_main_tasks[i] = StopClosure})

\* SendText is called in this step
SendTextCalled == last_send' # last_send

\* C39: StopListening has an effect only if the device is Listening when its
\* closure runs: then the stop-listening message with the session id is given
\* to SendText and the state becomes Idle; in any other state the closure
\* sends nothing and leaves the device state and the channel unchanged; the
\* call itself sends and changes nothing, and schedules no closure in a state
\* other than Listening, Speaking or Idle; nothing else sends the message.
C39_StopListeningOnlyWhenListening ==
    /\ [][(LoopRunStopListening /\ device_state_ = "Listening")
            => (/\ SendTextCalled
                /\ device_state_' = "Idle"
                /\ last_send'.ret = "true"
                     => text_sent' = Text("listen_stop", session_id_))]_vars
    /\ [][(LoopRunStopListening /\ device_state_ # "Listening")
            => (~SendTextCalled /\ UNCHANGED <<device_state_, protoVars>>)]_vars
    /\ [][StopListening
            => (~SendTextCalled /\ UNCHANGED <<device_state_, protoVars>>)]_vars
    /\ [][(StopPending' > StopPending)
            => (device_state_ \in {"Listening", "Speaking", "Idle"})]_vars
    /\ [][(text_sent' # text_sent /\ text_sent'.type = "listen_stop")
            => (device_state_ = "Listening" /\ device_state_' = "Idle")]_vars

\* C39 witness: the closure of a StopListening call has run in Listening,
\* the message is out and the device Idle, and the closure of a second call
\* waits in the list
C39_Witness ==
    /\ text_sent.type = "listen_stop"
    /\ last_send.ret = "true"
    /\ device_state_ = "Idle"
    /\ StopPending > 0

\* The playback loop and the worker of the work queue with their threads
\* going on: state changes between the states whose playback differs, the
\* transport's callback, the playback loop and the worker; the playback loop
\* and the worker take their next step.
NextBusy ==
    \/ \E S \in QueueStates : SdsBegin(S)
    \/ SdsBarrier
    \/ SdsEntry
    \/ SdsReturn
    \/ NetReceive(1)
    \/ OnIncomingAudio
    \/ AudioOutputDiscard
    \/ AudioOutputTake
    \/ AudioOutputSchedule
    \/ BgWorkerTake
    \/ BgWorkerRunDecode
    \/ BgWorkerFinish

SpecBusy ==
    /\ InitState
    /\ [][NextBusy]_vars
    /\ WF_vars(AudioOutputSchedule)
    /\ WF_vars(BgWorkerTake)
    /\ WF_vars(BgWorkerRunDecode)
    /\ WF_vars(BgWorkerFinish)

\* decode units in the work queue that have not started: listed in
\* main_tasks_, or in the worker's list behind the unit that runs
NotStartedDecodeUnits ==
    LET waiting == IF bg_pc = "fin" THEN Tail(bg_tasks) ELSE bg_tasks
    IN  Cardinality({i \in DOMAIN bg_main_tasks : bg_main_tasks[i].kind = "decode"})
        + Cardinality({i \in DOMAIN waiting : waiting[i].kind = "decode"})

\* the worker starts a decode unit in this step
DecodeUnitStarts ==
    /\ bg_pc = "cb"
    /\ bg_pc' = "fin"
    /\ Head(bg_tasks).kind = "decode"

\* C40: at most one decode unit of the playback loop waits in the work queue
\* without having started; busy_decoding_audio_ is true exactly while there
\* is one: the playback loop takes no packet while it is true and sets it as
\* it submits, only the start of the unit clears it, and once set it is
\* cleared at some time.
C40_OneDecodeUnitWaiting ==
    /\ [](NotStartedDecodeUnits <= 1)
    /\ [](busy_decoding_audio_ <=> (NotStartedDecodeUnits = 1))
    /\ [][AudioOutputTake => ~busy_decoding_audio_]_vars
    /\ [][(~busy_decoding_audio_ /\ busy_decoding_audio_')
            => (AudioOutputSchedule
                /\ NotStartedDecodeUnits' = NotStartedDecodeUnits + 1)]_vars
    /\ [][(busy_decoding_audio_ /\ ~busy_decoding_audio_') => DecodeUnitStarts]_vars
    /\ [][DecodeUnitStarts => ~busy_decoding_audio_']_vars
    /\ (busy_decoding_audio_ ~> ~busy_decoding_audio_)

\* C40 witness: a decode unit runs, the flag is clear again, and the playback
\* loop has taken the next packet while the unit is not over
C40_Witness ==
    /\ bg_pc = "fin"
    /\ Head(bg_tasks).kind = "decode"
    /\ ~busy_decoding_audio_
    /\ ao_pc = "schedule"
====
